---- MODULE Spec2Model ----
(***************************************************************************)
(* Workout-plan manager (damianturner/lifting-app): the plan editor, the   *)
(* plan generator, plan deletion and the per-user library synchronizer.    *)
(*                                                                         *)
(* Spec           the Template Model editor and the Generate button of     *)
(*                the hosted variants (logic/ and pages/).                 *)
(* LifecycleSpec  plans generated, read through the cached readers and     *)
(*                deleted (hosted cascade, embedded bottom-up              *)
(*                transaction).                                            *)
(* SyncSpec       sync_user_data of app.py, statement by statement, one    *)
(*                database transaction per call.                           *)
(***************************************************************************)
EXTENDS Integers, Sequences, FiniteSets, TLC

(***************************************************************************)
(* Bounds of the model.                                                    *)
(***************************************************************************)
MaxPlans == 2        \* macrocycle rows ever inserted (LifecycleSpec)
EditorPlans == 1     \* macrocycle rows ever inserted (Spec)
MaxWeeks == 2        \* largest num_weeks tried
MaxEdits == 5        \* editor operations in one behaviour
MaxSyncRuns == 3     \* sync_user_data calls in one behaviour
MaxCreates == 3      \* create-by-name calls in one behaviour
EditorEdits == 3     \* editor operations before Generate in EditorSpec
MaxSeeds == 1        \* entries seeding adds in SeededSyncSpec
MaxShownWeeks == 11  \* weeks of the stored plan in DisplaySpec
MaxReads == 3        \* _get_exercise_library_data calls per behaviour
MaxListed == 3       \* macrocycles the plan selector lists in SelectorSpec
MaxSessionEdits == 2 \* on-the-fly edits of one active session in LoggerSpec
MaxLoggedWeeks == 2  \* weeks of the stored plan in LoggerSpec

(***************************************************************************)
(* Program constants.                                                      *)
(***************************************************************************)
DefaultSets == 3
DefaultRir == 2
MinSets == 1
MaxSets == 20
NumWeeksMin == 1
NumWeeksMax == 52
NoId == 0            \* an ExerciseTemplate without a library_id attribute

SelectExercise == "(Select Exercise)"
CurrentUser == "u1"


VARIABLES
  deployment,           \* "logic", "pages" (hosted store) or "embedded" (single-file store)
  \* ---- persisted tables (committed rows) ----
  exerciselibrary,      \* [id, name, default_notes, user_id]
  categories,           \* [id, name, user_id]
  exercisecategories,   \* [row, exercise_id, category_id, user_id]
  base_categories,      \* [id, name]
  base_exercises,       \* [id, name, default_notes]
  base_exercise_categories, \* [exercise_id, category_id]
  macrocycles,          \* [id, name]
  minicycles,           \* [id, macro_id, name]
  workouts,             \* [id, mini_id, name]
  plannedexercises,     \* [id, workout_id, exercise_library_id, sets, target_rir_json, notes]
  seq,                  \* the tables' id sequences
  \* ---- editor session ----
  workout_templates,    \* st.session_state.workout_templates
  exercise_library_data,\* what _get_exercise_library_data() returned to this render
  edits,                \* editor operations performed so far
  gen,                  \* position of the running Generate handler
  outcome,              \* what the last button handler reported
  \* ---- cached readers ----
  macro_cycles_cache,   \* _fetch_macro_cycles
  details_cache,        \* _fetch_full_macro_cycle_details, per macro_id
  \* ---- embedded-store delete ----
  del,                  \* position of the running delete and its uncommitted deletes
  \* ---- library synchronizer ----
  session_state,        \* per session: the user and the synced_user_data flag
  sync,                 \* per session: position of sync_user_data and its cursor data
  pending,              \* per session: rows inserted by the open transaction
  synced_snapshot,      \* per user: catalog as the last committed sync left it
  sync_runs,            \* sync_user_data calls started so far
  \* ---- catalog creation by name ----
  creation,             \* the last create-by-name call and what it continued with
  \* ---- Plan Reader display ----
  shown,                \* what render_view_plan_page drew last
  \* ---- the shared Supabase client and the library read through it ----
  scope,                \* who the client is signed in as, the cached library read
  \* ---- Plan Reader selector ----
  selection,            \* what _select_macro_plan offered and returned last
  \* ---- Session Logger (embedded store) ----
  workoutlogs,          \* [id, workout_id]
  setlogs,              \* [id, workout_log_id, set_number]
  active_session        \* st.session_state[f"active_session_{w_id}"] and the page's state

planTables == <<macrocycles, minicycles, workouts, plannedexercises>>
catalogTables == <<exerciselibrary, categories, exercisecategories>>
baseTables == <<base_categories, base_exercises, base_exercise_categories>>
fixedVars == <<baseTables, deployment>>
editorVars == <<workout_templates, exercise_library_data, edits>>
cacheVars == <<macro_cycles_cache, details_cache>>
syncVars == <<session_state, sync, pending, synced_snapshot, sync_runs>>
loggerVars == <<workoutlogs, setlogs, active_session>>
otherVars == <<scope, selection, loggerVars>>
seedVars == <<creation, shown, otherVars>>
vars == <<planTables, catalogTables, fixedVars, seq, editorVars, gen, outcome,
          cacheVars, del, syncVars, seedVars>>

(***************************************************************************)
(* Generic helpers.                                                        *)
(***************************************************************************)
Min(a, b) == IF a <= b THEN a ELSE b

RemoveAt(s, i) == [j \in 1..(Len(s) - 1) |-> IF j < i THEN s[j] ELSE s[j + 1]]

Range(s) == {s[i] : i \in DOMAIN s}

\* The orders in which a Python set of these elements may be iterated.
OrderingsOf(S) ==
  {f \in [1..Cardinality(S) -> S] : \A i, j \in 1..Cardinality(S) : f[i] = f[j] => i = j}

RECURSIVE Flatten(_)
Flatten(ss) == IF ss = <<>> THEN <<>> ELSE Head(ss) \o Flatten(Tail(ss))

Occurrences(s, x) == Cardinality({i \in DOMAIN s : s[i] = x})

(***************************************************************************)
(* Template Model: the dataclasses and the editor's button handlers.       *)
(***************************************************************************)
ExerciseTemplate ==
  [name |-> "", sets |-> DefaultSets,
   rirs |-> [i \in 1..DefaultSets |-> DefaultRir], notes |-> "",
   library_id |-> NoId]

\* A new day that already holds one default exercise.
WorkoutTemplateWithExercise(name) == [name |-> name, exercises |-> <<ExerciseTemplate>>]

WorkoutTemplate(name) == [name |-> name, exercises |-> <<>>]

\* f"Day {n}" and f"Week {n}"
DayName(n) == <<"Day 1", "Day 2", "Day 3", "Day 4", "Day 5", "Day 6", "Day 7", "Day 8">>[n]

WeekName(n) ==
  <<"Week 1", "Week 2", "Week 3", "Week 4", "Week 5", "Week 6", "Week 7", "Week 8",
    "Week 9", "Week 10", "Week 11", "Week 12">>[n]

\* name_lookup: the (name, id) pairs of the library rows of this render.
name_lookup == {[name |-> r.name, id |-> r.id] : r \in exercise_library_data}

InLookup(name) == \E p \in name_lookup : p.name = name

LookupId(name) == (CHOOSE p \in name_lookup : p.name = name).id

Editing == gen.pc = "idle" /\ del.pc = "idle" /\ edits < MaxEdits

AddDay ==
  /\ Editing
  /\ workout_templates' =
       Append(workout_templates, WorkoutTemplate(DayName(Len(workout_templates) + 1)))
  /\ edits' = edits + 1
  /\ UNCHANGED <<planTables, catalogTables, fixedVars, seq, exercise_library_data,
                 gen, outcome, cacheVars, del, syncVars, seedVars>>

RemoveDay(d) ==
  /\ Editing
  /\ d \in DOMAIN workout_templates
  /\ workout_templates' = RemoveAt(workout_templates, d)
  /\ edits' = edits + 1
  /\ UNCHANGED <<planTables, catalogTables, fixedVars, seq, exercise_library_data,
                 gen, outcome, cacheVars, del, syncVars, seedVars>>

AddExercise(d) ==
  /\ Editing
  /\ d \in DOMAIN workout_templates
  /\ workout_templates' =
       [workout_templates EXCEPT ![d].exercises = Append(@, ExerciseTemplate)]
  /\ edits' = edits + 1
  /\ UNCHANGED <<planTables, catalogTables, fixedVars, seq, exercise_library_data,
                 gen, outcome, cacheVars, del, syncVars, seedVars>>

RemoveExercise(d, e) ==
  /\ Editing
  /\ d \in DOMAIN workout_templates
  /\ e \in DOMAIN workout_templates[d].exercises
  /\ workout_templates' = [workout_templates EXCEPT ![d].exercises = RemoveAt(@, e)]
  /\ edits' = edits + 1
  /\ UNCHANGED <<planTables, catalogTables, fixedVars, seq, exercise_library_data,
                 gen, outcome, cacheVars, del, syncVars, seedVars>>

\* _apply_exercise_choice: the selectbox offers "(Select Exercise)" and the
\* names of the library rows of this render.
ChosenName(choice) == IF choice = SelectExercise THEN "" ELSE choice

ApplyExerciseChoice(d, e, choice) ==
  /\ Editing
  /\ d \in DOMAIN workout_templates
  /\ e \in DOMAIN workout_templates[d].exercises
  /\ choice \in {SelectExercise} \cup {p.name : p \in name_lookup}
  /\ ChosenName(choice) # workout_templates[d].exercises[e].name
  /\ workout_templates' =
       [workout_templates EXCEPT ![d].exercises[e].name = ChosenName(choice)]
  /\ edits' = edits + 1
  /\ UNCHANGED <<planTables, catalogTables, fixedVars, seq, exercise_library_data,
                 gen, outcome, cacheVars, del, syncVars, seedVars>>

\* A minus button without the lower limit.
DecrementSetsUnguarded(et) ==
  [et EXCEPT !.sets = et.sets - 1, !.rirs = SubSeq(et.rirs, 1, et.sets - 1)]

DecrementSets(et) ==
  IF et.sets > MinSets
    THEN [et EXCEPT !.sets = et.sets - 1, !.rirs = SubSeq(et.rirs, 1, et.sets - 1)]
    ELSE et

\* A plus button that repeats the last value instead of appending 2.
IncrementSetsRepeatingLast(et) ==
  IF et.sets < MaxSets
    THEN [et EXCEPT !.sets = et.sets + 1, !.rirs = Append(et.rirs, et.rirs[Len(et.rirs)])]
    ELSE et

IncrementSets(et) ==
  IF et.sets < MaxSets
    THEN [et EXCEPT !.sets = et.sets + 1, !.rirs = Append(et.rirs, DefaultRir)]
    ELSE et

MinusSet(d, e) ==
  /\ Editing
  /\ d \in DOMAIN workout_templates
  /\ e \in DOMAIN workout_templates[d].exercises
  /\ workout_templates' =
       [workout_templates EXCEPT ![d].exercises[e] = DecrementSets(@)]
  /\ edits' = edits + 1
  /\ UNCHANGED <<planTables, catalogTables, fixedVars, seq, exercise_library_data,
                 gen, outcome, cacheVars, del, syncVars, seedVars>>

AddSet(d, e) ==
  /\ Editing
  /\ d \in DOMAIN workout_templates
  /\ e \in DOMAIN workout_templates[d].exercises
  /\ workout_templates' =
       [workout_templates EXCEPT ![d].exercises[e] = IncrementSets(@)]
  /\ edits' = edits + 1
  /\ UNCHANGED <<planTables, catalogTables, fixedVars, seq, exercise_library_data,
                 gen, outcome, cacheVars, del, syncVars, seedVars>>

\* The render loop of one exercise (lines 296-318): the list is padded with
\* 2 up to the set count, never shortened, before the inputs are drawn.
PadRirs(et) ==
  [et EXCEPT !.rirs = et.rirs \o [k \in 1..(et.sets - Len(et.rirs)) |-> DefaultRir]]

\* What st.number_input(min_value=0, max_value=5) can return.
RirInputUnbounded == -1..6

RirInput == 0..5

NoteTexts == {"", "slow"}

\* The user changes the number input of one set; the rerun stores what the
\* widget returns.
SetRir(d, e, set_index, value) ==
  /\ Editing
  /\ d \in DOMAIN workout_templates
  /\ e \in DOMAIN workout_templates[d].exercises
  /\ set_index \in 1..workout_templates[d].exercises[e].sets
  /\ value \in RirInput
  /\ LET et == PadRirs(workout_templates[d].exercises[e])
     IN  /\ value # et.rirs[set_index]
         /\ workout_templates' =
              [workout_templates EXCEPT ![d].exercises[e] =
                 [et EXCEPT !.rirs[set_index] = value]]
  /\ edits' = edits + 1
  /\ UNCHANGED <<planTables, catalogTables, fixedVars, seq, exercise_library_data,
                 gen, outcome, cacheVars, del, syncVars, seedVars>>

\* The user changes the notes text area of one exercise (lines 321-323).
SetNotes(d, e, text) ==
  /\ Editing
  /\ d \in DOMAIN workout_templates
  /\ e \in DOMAIN workout_templates[d].exercises
  /\ text # workout_templates[d].exercises[e].notes
  /\ workout_templates' =
       [workout_templates EXCEPT ![d].exercises[e] = [PadRirs(@) EXCEPT !.notes = text]]
  /\ edits' = edits + 1
  /\ UNCHANGED <<planTables, catalogTables, fixedVars, seq, exercise_library_data,
                 gen, outcome, cacheVars, del, syncVars, seedVars>>

\* _get_exercise_library_data on a cache miss (or the uncached read of the
\* pages variant): the user's library rows, or [] when the read raises.
LibraryRows == {[id |-> r.id, name |-> r.name] :
                  r \in {x \in exerciselibrary : x.user_id = CurrentUser}}

RefetchLibrary(ok) ==
  /\ gen.pc = "idle" /\ del.pc = "idle"
  /\ exercise_library_data' = IF ok THEN LibraryRows ELSE {}
  /\ exercise_library_data' # exercise_library_data
  /\ UNCHANGED <<planTables, catalogTables, fixedVars, seq, workout_templates, edits,
                 gen, outcome, cacheVars, del, syncVars, seedVars>>

(***************************************************************************)
(* Plan Generator: the Generate button handler of render_edit_plan_page.   *)
(* Every request to the store is one step; each insert is committed by the *)
(* store when its request returns (the client opens no transaction).       *)
(***************************************************************************)
MacroNames == {"", "Winter Bulk"}

\* Python's None as the value of a plan detail.
NoDetail ==
  [found |-> FALSE, macro |-> [id |-> NoId, name |-> ""], minicycles |-> {},
   workouts |-> {}, plannedexercises |-> {}]

IdleGen ==
  [pc |-> "idle", macro_name |-> "", num_weeks |-> 0, templates |-> <<>>,
   week |-> 0, day |-> 0, ex |-> 0, macro_id |-> NoId, mini_id |-> NoId,
   workout_id |-> NoId]

NoOutcome == [status |-> "none", names |-> <<>>]

\* Lines 339-350: a named template found in name_lookup gets its library_id.
ResolveExercise(et) ==
  IF et.name # "" /\ InLookup(et.name)
    THEN [et EXCEPT !.library_id = LookupId(et.name)]
    ELSE et

ResolveTemplates(ts) ==
  [d \in DOMAIN ts |->
     [ts[d] EXCEPT !.exercises = [e \in DOMAIN ts[d].exercises |->
                                    ResolveExercise(ts[d].exercises[e])]]]

\* True where the validation loop appends the template's name to missing_exercises.
IsMissing(et) == et.name # "" /\ ~InLookup(et.name)

MissingOfDay(wt) ==
  LET names == [e \in DOMAIN wt.exercises |-> wt.exercises[e].name]
      miss(n) == n # "" /\ ~InLookup(n)
  IN  SelectSeq(names, miss)

MissingExercises(ts) == Flatten([d \in DOMAIN ts |-> MissingOfDay(ts[d])])

\* Variant of ReportedNames without set(): one entry per occurrence.
ReportedNamesPerOccurrence(missing) == {missing}

\* ', '.join(set(missing_exercises)): every order a set may be iterated in.
ReportedNames(missing) == OrderingsOf(Range(missing))

\* The macro_name check exists in logic/edit_plan_page.py only.
ChecksMacroName == deployment = "logic"

\* Loop control of lines 368-417: the position after the insert at position g.
AfterWeek(g) ==
  IF g.week < g.num_weeks
    THEN [g EXCEPT !.pc = "mini", !.week = g.week + 1, !.day = 0, !.ex = 0]
    ELSE [g EXCEPT !.pc = "finish"]

AfterDay(g) ==
  IF g.day < Len(workout_templates)
    THEN [g EXCEPT !.pc = "workout", !.day = g.day + 1, !.ex = 0]
    ELSE AfterWeek(g)

AfterExercise(g) ==
  IF g.ex < Len(workout_templates[g.day].exercises)
    THEN [g EXCEPT !.pc = "exercise", !.ex = g.ex + 1]
    ELSE AfterDay(g)

\* The caches are left as they are.
KeepCaches == UNCHANGED <<macro_cycles_cache, details_cache>>

\* _fetch_macro_cycles.clear() and _fetch_full_macro_cycle_details.clear().
ClearCaches ==
  /\ macro_cycles_cache' = [filled |-> FALSE, data |-> {}]
  /\ details_cache' = [i \in DOMAIN details_cache |-> [filled |-> FALSE, data |-> NoDetail]]

\* render_sidebar_stats (logic/view_plan_page.py:202) is a plain function:
\* render_sidebar_stats.clear() raises AttributeError.
StatsClearRaises == deployment = "logic"

\* Lines 418-440 when the loops are exhausted, else the handler goes on.
\* ts: the template list as the step leaves it. After "Plan Saved!" the
\* logic variant clears the two reader caches and then raises at line 423:
\* the except branch shows "Failed to save plan" and the editor is not reset.
Continue(g, ts) ==
  IF g.pc = "finish"
    THEN /\ gen' = [g EXCEPT !.pc = "idle"]
         /\ IF StatsClearRaises
              THEN /\ ClearCaches
                   /\ outcome' = [status |-> "saved_failed", names |-> <<>>]
                   /\ workout_templates' = ts
              ELSE /\ UNCHANGED cacheVars
                   /\ outcome' = [status |-> "saved", names |-> <<>>]
                   /\ workout_templates' = <<>>
    ELSE /\ gen' = g
         /\ workout_templates' = ts
         /\ UNCHANGED <<outcome, cacheVars>>

\* plans: the bound on macrocycle rows of the specification that takes the step.
GenerateClick(macro_name, num_weeks, plans) ==
  /\ gen.pc = "idle" /\ del.pc = "idle"
  /\ macro_name \in MacroNames
  /\ num_weeks \in NumWeeksMin..Min(NumWeeksMax, MaxWeeks)
  /\ seq.macro <= plans
  /\ LET call == [IdleGen EXCEPT !.macro_name = macro_name, !.num_weeks = num_weeks,
                                 !.templates = workout_templates]
         missing == MissingExercises(workout_templates)
     IN  IF ChecksMacroName /\ macro_name = ""
           THEN /\ gen' = call
                /\ outcome' = [status |-> "name_error", names |-> <<>>]
                /\ UNCHANGED workout_templates
           ELSE /\ workout_templates' = ResolveTemplates(workout_templates)
                /\ IF missing # <<>>
                     THEN /\ gen' = call
                          /\ \E names \in ReportedNames(missing) :
                               outcome' = [status |-> "missing", names |-> names]
                     ELSE /\ gen' = [call EXCEPT !.pc = "macro"]
                          /\ outcome' = [status |-> "generating", names |-> <<>>]
  /\ UNCHANGED <<planTables, catalogTables, fixedVars, seq, exercise_library_data, edits,
                 cacheVars, del, syncVars, seedVars>>

MacroRow(id, name) == [id |-> id, name |-> name]

\* A minicycle row that does not carry its macrocycle's id.
MiniRowUnparented(id, macro_id, week) ==
  [id |-> id, macro_id |-> NoId, name |-> WeekName(week)]

MiniRow(id, macro_id, week) == [id |-> id, macro_id |-> macro_id, name |-> WeekName(week)]

\* Only the workouts of the first week get the name of their template.
WorkoutRowFirstWeekOnly(id, mini_id, wt) ==
  [id |-> id, mini_id |-> mini_id, name |-> IF mini_id = 1 THEN wt.name ELSE "Rest"]

WorkoutRow(id, mini_id, wt) == [id |-> id, mini_id |-> mini_id, name |-> wt.name]

PlannedRow(id, workout_id, et) ==
  [id |-> id, workout_id |-> workout_id, exercise_library_id |-> et.library_id,
   sets |-> et.sets, target_rir_json |-> et.rirs, notes |-> et.notes]

InsertMacroCycle ==
  /\ gen.pc = "macro"
  /\ macrocycles' = macrocycles \cup {MacroRow(seq.macro, gen.macro_name)}
  /\ seq' = [seq EXCEPT !.macro = @ + 1]
  /\ Continue([gen EXCEPT !.pc = "mini", !.week = 1, !.macro_id = seq.macro],
              workout_templates)
  /\ UNCHANGED <<minicycles, workouts, plannedexercises, catalogTables, fixedVars,
                 exercise_library_data, edits, del, syncVars, seedVars>>

InsertMiniCycle ==
  /\ gen.pc = "mini"
  /\ minicycles' = minicycles \cup {MiniRow(seq.mini, gen.macro_id, gen.week)}
  /\ seq' = [seq EXCEPT !.mini = @ + 1]
  /\ Continue(AfterDay([gen EXCEPT !.mini_id = seq.mini, !.day = 0]), workout_templates)
  /\ UNCHANGED <<macrocycles, workouts, plannedexercises, catalogTables, fixedVars,
                 exercise_library_data, edits, del, syncVars, seedVars>>

InsertWorkout ==
  /\ gen.pc = "workout"
  /\ workouts' = workouts \cup
       {WorkoutRow(seq.workout, gen.mini_id, workout_templates[gen.day])}
  /\ seq' = [seq EXCEPT !.workout = @ + 1]
  /\ Continue(AfterExercise([gen EXCEPT !.workout_id = seq.workout, !.ex = 0]),
              workout_templates)
  /\ UNCHANGED <<macrocycles, minicycles, plannedexercises, catalogTables, fixedVars,
                 exercise_library_data, edits, del, syncVars, seedVars>>

\* Lines 395-407: the late lookup of a template that has no library_id.
LateLookup(name) == {r.id : r \in {x \in exerciselibrary :
                                     x.user_id = CurrentUser /\ x.name = name}}

WithLibraryId(et) ==
  IF et.library_id # NoId THEN et
  ELSE [et EXCEPT !.library_id = CHOOSE id \in LateLookup(et.name) : TRUE]

Fail(g) ==
  /\ gen' = [g EXCEPT !.pc = "idle"]
  /\ outcome' = [status |-> "failed", names |-> <<>>]

InsertPlannedExercise ==
  /\ gen.pc = "exercise"
  /\ LET et == workout_templates[gen.day].exercises[gen.ex]
     IN  IF et.library_id = NoId /\ LateLookup(et.name) = {}
           THEN \* ValueError: "... not found in library during final save."
                /\ Fail(gen)
                /\ UNCHANGED <<plannedexercises, seq, workout_templates, cacheVars>>
           ELSE /\ plannedexercises' = plannedexercises \cup
                     {PlannedRow(seq.planned, gen.workout_id, WithLibraryId(et))}
                /\ seq' = [seq EXCEPT !.planned = @ + 1]
                /\ Continue(AfterExercise(gen),
                            [workout_templates EXCEPT
                               ![gen.day].exercises[gen.ex] = WithLibraryId(et)])
  /\ UNCHANGED <<macrocycles, minicycles, workouts, catalogTables, fixedVars,
                 exercise_library_data, edits, del, syncVars, seedVars>>

\* A request of the handler raises (or returns no data): lines 438-440.
GenerateFails ==
  /\ gen.pc \in {"macro", "mini", "workout", "exercise"}
  /\ Fail(gen)
  /\ UNCHANGED <<planTables, catalogTables, fixedVars, seq, editorVars, cacheVars, del,
                 syncVars, seedVars>>

(***************************************************************************)
(* Plan Reader: the cached readers of logic/view_plan_page.py and the      *)
(* uncached reads of the other two variants.                                *)
(***************************************************************************)
PlanIds == 1..MaxPlans

MinisOf(minis, macro_id) == {m \in minis : m.macro_id = macro_id}

WorkoutsOf(ws, minis, macro_id) ==
  {w \in ws : w.mini_id \in {m.id : m \in MinisOf(minis, macro_id)}}

PlannedOf(pes, ws, minis, macro_id) ==
  {p \in pes : p.workout_id \in {w.id : w \in WorkoutsOf(ws, minis, macro_id)}}

\* The nested select of _fetch_full_macro_cycle_details; .single() raises on no
\* row and the function then returns None.
Detail(macro_id) ==
  IF \E m \in macrocycles : m.id = macro_id
    THEN [found |-> TRUE,
          macro |-> CHOOSE m \in macrocycles : m.id = macro_id,
          minicycles |-> MinisOf(minicycles, macro_id),
          workouts |-> WorkoutsOf(workouts, minicycles, macro_id),
          plannedexercises |-> PlannedOf(plannedexercises, workouts, minicycles, macro_id)]
    ELSE NoDetail

Idle == gen.pc = "idle" /\ del.pc = "idle"

\* _fetch_macro_cycles on a cache miss; a failed read returns [] and is cached too.
FetchMacroCycles(ok) ==
  /\ Idle /\ deployment = "logic"
  /\ ~macro_cycles_cache.filled
  /\ macro_cycles_cache' = [filled |-> TRUE, data |-> IF ok THEN macrocycles ELSE {}]
  /\ UNCHANGED <<planTables, catalogTables, fixedVars, seq, editorVars, gen, outcome,
                 details_cache, del, syncVars, seedVars>>

\* _fetch_full_macro_cycle_details(macro_id) on a cache miss, for the plan the
\* selector offers.
FetchDetails(macro_id, ok) ==
  /\ Idle /\ deployment = "logic"
  /\ macro_cycles_cache.filled
  /\ macro_id \in {m.id : m \in macro_cycles_cache.data}
  /\ ~details_cache[macro_id].filled
  /\ details_cache' =
       [details_cache EXCEPT
          ![macro_id] = [filled |-> TRUE, data |-> IF ok THEN Detail(macro_id) ELSE NoDetail]]
  /\ UNCHANGED <<planTables, catalogTables, fixedVars, seq, editorVars, gen, outcome,
                 macro_cycles_cache, del, syncVars, seedVars>>

\* ttl=3600 runs out for one cache entry.
ExpireMacroCycles ==
  /\ Idle /\ macro_cycles_cache.filled
  /\ macro_cycles_cache' = [filled |-> FALSE, data |-> {}]
  /\ UNCHANGED <<planTables, catalogTables, fixedVars, seq, editorVars, gen, outcome,
                 details_cache, del, syncVars, seedVars>>

ExpireDetails(macro_id) ==
  /\ Idle /\ macro_id \in PlanIds /\ details_cache[macro_id].filled
  /\ details_cache' = [details_cache EXCEPT ![macro_id] = [filled |-> FALSE, data |-> NoDetail]]
  /\ UNCHANGED <<planTables, catalogTables, fixedVars, seq, editorVars, gen, outcome,
                 macro_cycles_cache, del, syncVars, seedVars>>

\* What a reader gets for macro_id now: the cached value when there is one.
ReadDetails(macro_id) ==
  IF deployment = "logic" /\ details_cache[macro_id].filled
    THEN details_cache[macro_id].data
    ELSE Detail(macro_id)

(***************************************************************************)
(* Plan Reader display: the three sorts of render_view_plan_page.          *)
(***************************************************************************)
\* The code points of the names the generator writes: f"Week {n}", f"Day {n}".
Decimal(n) == IF n < 10 THEN <<48 + n>> ELSE <<48 + (n \div 10), 48 + (n % 10)>>

WeekPrefix == <<87, 101, 101, 107, 32>>

DayPrefix == <<68, 97, 121, 32>>

CodePoints(name) ==
  IF \E n \in 1..12 : name = WeekName(n)
    THEN WeekPrefix \o Decimal(CHOOSE n \in 1..12 : name = WeekName(n))
  ELSE IF \E n \in 1..8 : name = DayName(n)
    THEN DayPrefix \o Decimal(CHOOSE n \in 1..8 : name = DayName(n))
  ELSE <<>>

\* Python's < on str: the first differing code point decides, a proper
\* prefix is smaller.
StrLess(a, b) ==
  \E k \in 1..(Min(Len(a), Len(b)) + 1) :
    /\ \A i \in 1..(k - 1) : a[i] = b[i]
    /\ \/ k > Len(a) /\ k <= Len(b)
       \/ k <= Len(a) /\ k <= Len(b) /\ a[k] < b[k]

\* The order in which the rows of a response arrive: the request has no
\* order clause.
ResponseOrders == {"ascending id", "descending id"}

ArrivesBefore(x, y, response) ==
  IF response = "ascending id" THEN x.id < y.id ELSE x.id > y.id

\* A sort key that orders rows by id instead of by name.
IdKey(row) == <<row.id>>

\* key=lambda x: x.get('name', '')
NameKey(row) == CodePoints(row.name)

\* list.sort(key=...) of the rows as they arrived: ascending keys, rows of
\* equal keys in arrival order.
SortByName(rows, response) ==
  LET before(x, y) == \/ StrLess(NameKey(x), NameKey(y))
                      \/ NameKey(x) = NameKey(y) /\ ArrivesBefore(x, y, response)
  IN  [i \in 1..Cardinality(rows) |->
         CHOOSE x \in rows : Cardinality({y \in rows : before(y, x)}) = i - 1]

\* A sort that puts the newest row first.
SortByIdDescending(rows) ==
  [i \in 1..Cardinality(rows) |->
     CHOOSE x \in rows : Cardinality({y \in rows : y.id > x.id}) = i - 1]

\* list.sort(key=lambda x: x.get('id', 0))
SortById(rows) ==
  [i \in 1..Cardinality(rows) |->
     CHOOSE x \in rows : Cardinality({y \in rows : y.id < x.id}) = i - 1]

\* The expander of one workout: its name and the ids of its table rows.
WorkoutView(detail, w) ==
  LET rows == SortById({p \in detail.plannedexercises : p.workout_id = w.id})
  IN  [id |-> w.id, name |-> w.name, exercises |-> [i \in DOMAIN rows |-> rows[i].id]]

\* The tab of one MiniCycle.
TabView(detail, m, response) ==
  LET ws == SortByName({w \in detail.workouts : w.mini_id = m.id}, response)
  IN  [id |-> m.id, name |-> m.name,
       workouts |-> [i \in DOMAIN ws |-> WorkoutView(detail, ws[i])]]

\* render_view_plan_page for the selected plan, its detail being cached by
\* the fetch of this run. None, or no minicycles: "This plan has no
\* scheduled weeks".
RenderPlan(macro_id, response) ==
  /\ Idle /\ deployment = "logic"
  /\ macro_cycles_cache.filled
  /\ macro_id \in {m.id : m \in macro_cycles_cache.data}
  /\ details_cache[macro_id].filled
  /\ LET detail == details_cache[macro_id].data
         minis == SortByName(detail.minicycles, response)
     IN  shown' = [macro_id |-> macro_id,
                   tabs |-> IF detail.found
                              THEN [i \in DOMAIN minis |-> TabView(detail, minis[i], response)]
                              ELSE <<>>]
  /\ UNCHANGED <<planTables, catalogTables, fixedVars, seq, editorVars, gen, outcome,
                 cacheVars, del, syncVars, creation, otherVars>>

(***************************************************************************)
(* Deletion.                                                               *)
(***************************************************************************)
\* The ids the plan selector can hand to the danger zone.
\* embedded: macro_options = {name: id for id, name in macros} keeps, per name,
\* the row read last (rowid order).
MacroOptions ==
  {m.id : m \in {x \in macrocycles : \A o \in macrocycles : o.name = x.name => o.id <= x.id}}

SelectableIds ==
  IF deployment = "logic"
    THEN {m.id : m \in macro_cycles_cache.data}
  ELSE IF deployment = "pages" THEN {m.id : m \in macrocycles}
  ELSE MacroOptions

\* The position of a delete handler; gone: the ids the open transaction of
\* the embedded store has deleted.
NothingGone == [planned |-> {}, workouts |-> {}, minis |-> {}, macros |-> {}]

\* had: the rows of the plan when the delete button was clicked.
NoTree == [macros |-> {}, minis |-> {}, workouts |-> {}, planned |-> {}]

TreeOf(macro_id) ==
  [macros |-> {m \in macrocycles : m.id = macro_id},
   minis |-> MinisOf(minicycles, macro_id),
   workouts |-> WorkoutsOf(workouts, minicycles, macro_id),
   planned |-> PlannedOf(plannedexercises, workouts, minicycles, macro_id)]

IdleDel ==
  [pc |-> "idle", macro_id |-> NoId, gone |-> NothingGone, had |-> NoTree,
   failed_at |-> "none"]

\* ON DELETE CASCADE of the hosted schema: the rows that go with macrocycle id.
CascadeMinis(macro_id) == MinisOf(minicycles, macro_id)
CascadeWorkouts(macro_id) == WorkoutsOf(workouts, minicycles, macro_id)
CascadePlanned(macro_id) == PlannedOf(plannedexercises, workouts, minicycles, macro_id)

\* _render_danger_zone of the hosted variants: one delete request. After
\* "Plan deleted successfully!" the logic variant clears the two reader
\* caches and then raises at line 142: "Could not delete plan." is shown too.
DeleteHosted(macro_id, ok) ==
  /\ Idle /\ deployment \in {"logic", "pages"}
  /\ macro_id \in SelectableIds
  /\ IF ok /\ \E m \in macrocycles : m.id = macro_id
       THEN /\ macrocycles' = {m \in macrocycles : m.id # macro_id}
            /\ minicycles' = minicycles \ CascadeMinis(macro_id)
            /\ workouts' = workouts \ CascadeWorkouts(macro_id)
            /\ plannedexercises' = plannedexercises \ CascadePlanned(macro_id)
            /\ IF StatsClearRaises
                 THEN /\ ClearCaches
                      /\ outcome' = [status |-> "deleted_failed", names |-> <<>>]
                 ELSE /\ UNCHANGED cacheVars
                      /\ outcome' = [status |-> "deleted", names |-> <<>>]
       ELSE /\ outcome' = [status |-> "delete_failed", names |-> <<>>]
            /\ UNCHANGED <<planTables, cacheVars>>
  /\ del' = [IdleDel EXCEPT !.macro_id = macro_id, !.had = TreeOf(macro_id),
                            !.failed_at =
                              IF ok /\ \E m \in macrocycles : m.id = macro_id
                                THEN "none" ELSE "request"]
  /\ UNCHANGED <<catalogTables, fixedVars, seq, editorVars, gen, syncVars, seedVars>>

\* Embedded store (view_plan_page.py, lines 100-113): four DELETE statements
\* in the connection's implicit transaction, then commit. del.gone holds the
\* ids the open transaction has deleted; the Tx tables are what the
\* connection sees.
TxMacros == {m \in macrocycles : m.id \notin del.gone.macros}
TxMinis == {m \in minicycles : m.id \notin del.gone.minis}
TxWorkouts == {w \in workouts : w.id \notin del.gone.workouts}
TxPlanned == {p \in plannedexercises : p.id \notin del.gone.planned}

EmbeddedDeleteClick(macro_id) ==
  /\ Idle /\ deployment = "embedded"
  /\ macro_id \in SelectableIds
  /\ del' = [IdleDel EXCEPT !.pc = "templates", !.macro_id = macro_id,
                            !.had = TreeOf(macro_id)]
  /\ outcome' = [status |-> "deleting", names |-> <<>>]
  /\ UNCHANGED <<planTables, catalogTables, fixedVars, seq, editorVars, gen, cacheVars,
                 syncVars, seedVars>>

\* The statement at each position and the position after it.
DeleteStatement(d) ==
  IF d.pc = "templates"
    THEN [d EXCEPT !.pc = "workouts",
                   !.gone.planned = @ \cup
                     {p.id : p \in PlannedOf(TxPlanned, TxWorkouts, TxMinis, d.macro_id)}]
  ELSE IF d.pc = "workouts"
    THEN [d EXCEPT !.pc = "minis",
                   !.gone.workouts = @ \cup
                     {w.id : w \in WorkoutsOf(TxWorkouts, TxMinis, d.macro_id)}]
  ELSE IF d.pc = "minis"
    THEN [d EXCEPT !.pc = "macro",
                   !.gone.minis = @ \cup {m.id : m \in MinisOf(TxMinis, d.macro_id)}]
  ELSE [d EXCEPT !.pc = "commit",
                 !.gone.macros = @ \cup {m.id : m \in {x \in TxMacros : x.id = d.macro_id}}]

EmbeddedDeleteStep ==
  /\ del.pc \in {"templates", "workouts", "minis", "macro"}
  /\ del' = DeleteStatement(del)
  /\ UNCHANGED <<planTables, catalogTables, fixedVars, seq, editorVars, gen, outcome,
                 cacheVars, syncVars, seedVars>>

EmbeddedDeleteCommit ==
  /\ del.pc = "commit"
  /\ macrocycles' = TxMacros
  /\ minicycles' = TxMinis
  /\ workouts' = TxWorkouts
  /\ plannedexercises' = TxPlanned
  /\ del' = [IdleDel EXCEPT !.macro_id = del.macro_id, !.had = del.had]
  /\ outcome' = [status |-> "deleted", names |-> <<>>]
  /\ UNCHANGED <<catalogTables, fixedVars, seq, editorVars, gen, cacheVars, syncVars, seedVars>>

\* A close that keeps what the open transaction did.
CloseKeepingWork(table, tx) == tx

\* conn.close() (line 113) without a commit: the open transaction is discarded.
CloseWithoutCommit(table, tx) == table

\* A statement or the commit raises: the handler reports the failure and the
\* connection is closed.
EmbeddedDeleteFails ==
  /\ del.pc \in {"templates", "workouts", "minis", "macro", "commit"}
  /\ macrocycles' = CloseWithoutCommit(macrocycles, TxMacros)
  /\ minicycles' = CloseWithoutCommit(minicycles, TxMinis)
  /\ workouts' = CloseWithoutCommit(workouts, TxWorkouts)
  /\ plannedexercises' = CloseWithoutCommit(plannedexercises, TxPlanned)
  /\ del' = [IdleDel EXCEPT !.macro_id = del.macro_id, !.had = del.had,
                            !.failed_at = del.pc]
  /\ outcome' = [status |-> "delete_failed", names |-> <<>>]
  /\ UNCHANGED <<catalogTables, fixedVars, seq, editorVars, gen, cacheVars, syncVars, seedVars>>

(***************************************************************************)
(* The library synchronizer: sync_user_data (app.py), one psycopg2         *)
(* connection and one transaction per call.                                *)
(***************************************************************************)
Sessions == {"s1", "s2"}
Users == {"u1", "u2"}

NoPending == [categories |-> {}, exerciselibrary |-> {}, exercisecategories |-> {}]

IdleSync ==
  [pc |-> "idle", user |-> "", missing |-> {}, base_read |-> {}, pairs |-> {},
   before |-> NoPending, result |-> "none", failed_in |-> "none", inserted |-> 0]

\* No create-by-name call yet. existing_id: the id of the row of that name
\* before the call (NoId: none); exercise_id: the id the call went on with;
\* category_ids: per category name, the id the call linked; failed: the call
\* ended in its except branch.
\* Nothing drawn yet; tabs: per week tab its name and, per workout expander,
\* the workout name and the plannedexercises ids of its table rows, in order.
NoDisplay == [macro_id |-> NoId, tabs |-> <<>>]

NoCreation ==
  [path |-> "none", name |-> "", existing_id |-> NoId, exercise_id |-> NoId,
   category_ids |-> {}, failed |-> FALSE, calls |-> 0]

\* The shared client is signed out and _get_exercise_library_data has no
\* cached result.
NoScope == [client_user |-> "", cache |-> [filled |-> FALSE, data |-> {}], reads |-> 0]

\* options: the selectbox options; to_id: the ids the display names map to;
\* chosen: the position of the picked option; macro_id: what it resolved to.
NoSelection ==
  [options |-> <<>>, to_id |-> {}, chosen |-> 0, display_name |-> "", macro_id |-> NoId]

\* page: what the last run of render_workout_page drew ("closed": the page
\* is not open); w_id, buffer: the session buffer st.session_state holds
\* (w_id NoId: none); steps: the on-the-fly edits of this buffer so far.
NoSession == [page |-> "closed", w_id |-> NoId, buffer |-> <<>>, steps |-> 0]

OthersIdle ==
  /\ scope = NoScope
  /\ selection = NoSelection
  /\ workoutlogs = {} /\ setlogs = {}
  /\ active_session = NoSession

SyncIdleInit ==
  /\ creation = NoCreation
  /\ shown = NoDisplay
  /\ OthersIdle
  /\ session_state = [s \in Sessions |-> [user |-> "u1", synced |-> FALSE]]
  /\ sync = [s \in Sessions |-> IdleSync]
  /\ pending = [s \in Sessions |-> NoPending]
  /\ synced_snapshot = [u \in Users |-> [taken |-> FALSE, catalog |-> NoPending]]
  /\ sync_runs = 0

\* The rows of user u in the three committed catalog tables.
CommittedCatalog(u) ==
  [categories |-> {r \in categories : r.user_id = u},
   exerciselibrary |-> {r \in exerciselibrary : r.user_id = u},
   exercisecategories |-> {r \in exercisecategories : r.user_id = u}]

\* What a statement of the open transaction reads: only committed rows.
VisibleCommittedOnly(committed, own) == committed

\* What a statement of the open transaction reads: the committed rows and
\* the rows the transaction itself has inserted.
Visible(committed, own) == committed \cup own

NamesOf(rows, u) == {r.name : r \in {x \in rows : x.user_id = u}}

\* cur.fetchone() of "SELECT id ... WHERE name = %s AND user_id = %s":
\* the matching rows (none: the result is None).
IdsOf(rows, name, u) == {r.id : r \in {x \in rows : x.name = name /\ x.user_id = u}}

\* The unique key (name, user_id) of categories and of exerciselibrary.
NameConflict(rows, name, u) == \E r \in rows : r.name = name /\ r.user_id = u

\* The unique key (exercise_id, category_id) of exercisecategories.
LinkConflict(rows, exercise_id, category_id) ==
  \E r \in rows : r.exercise_id = exercise_id /\ r.category_id = category_id

\* A store without the unique index: no INSERT ever waits for another
\* transaction.
NameNeverHeld(s, table, name, u) == FALSE

\* The unique index makes an INSERT of a key that another open transaction
\* has inserted and not yet committed wait until that transaction ends; the
\* statement of session s runs only while no other session holds the key.
NameHeld(s, table, name, u) ==
  \E t \in Sessions \ {s} : NameConflict(pending[t][table], name, u)

LinkHeld(s, exercise_id, category_id) ==
  \E t \in Sessions \ {s} :
    LinkConflict(pending[t].exercisecategories, exercise_id, category_id)

\* A row written for a fixed user instead of the user of the call.
CategoryRowUnscoped(id, cat_name, user_id) ==
  [id |-> id, name |-> cat_name, user_id |-> "u2"]

\* Line 50: VALUES (%s, %s) with (cat_name, user_id).
CategoryRow(id, cat_name, user_id) ==
  [id |-> id, name |-> cat_name, user_id |-> user_id]

\* An INSERT without the ON CONFLICT clause that nevertheless goes through.
InsertRegardless(conflict, own, row) == own \cup {row}

\* INSERT ... ON CONFLICT ... DO NOTHING into the rows the transaction holds.
OnConflictDoNothing(conflict, own, row) == IF conflict THEN own ELSE own \cup {row}

\* The join of lines 69-74.
BasePairs ==
  {<<be.name, bc.name>> :
     <<be, bc>> \in {p \in base_exercises \X base_categories :
                       [exercise_id |-> p[1].id, category_id |-> p[2].id]
                         \in base_exercise_categories}}

SyncIdle == \A s \in Sessions : sync[s].pc = "idle"

SyncFrame ==
  UNCHANGED <<planTables, fixedVars, editorVars, gen, outcome, cacheVars, del, seedVars>>

\* A call that ignores the flag of the session.
FlagIgnored(s) == FALSE

\* Lines 33-35: st.session_state.get(sync_key, False).
AlreadySynced(s) == session_state[s].synced

\* Lines 29-38. exclusive: no other call is running.
SyncStart(s, exclusive) ==
  /\ sync[s].pc = "idle"
  /\ sync_runs < MaxSyncRuns
  /\ exclusive => SyncIdle
  /\ sync_runs' = sync_runs + 1
  /\ LET u == session_state[s].user
         call == [IdleSync EXCEPT !.user = u, !.before = CommittedCatalog(u)]
     IN  sync' = [sync EXCEPT ![s] =
                    IF AlreadySynced(s)
                      THEN [call EXCEPT !.result = "skipped"]
                      ELSE [call EXCEPT !.pc = "categories", !.result = "running"]]
  /\ UNCHANGED <<catalogTables, seq, session_state, pending, synced_snapshot>>
  /\ SyncFrame

\* Lines 41-47: the two SELECTs and the set difference.
SyncReadCategories(s) ==
  /\ sync[s].pc = "categories"
  /\ LET u == sync[s].user
         missing_categories ==
           {r.name : r \in base_categories}
             \ NamesOf(Visible(categories, pending[s].categories), u)
     IN  sync' = [sync EXCEPT ![s].missing = missing_categories,
                              ![s].pc = IF missing_categories # {}
                                          THEN "insert_category" ELSE "exercises"]
  /\ UNCHANGED <<catalogTables, seq, session_state, pending, synced_snapshot, sync_runs>>
  /\ SyncFrame

\* Line 50, one iteration of the loop of line 49.
SyncInsertCategory(s) ==
  /\ sync[s].pc = "insert_category"
  /\ \E cat_name \in sync[s].missing :
       LET u == sync[s].user
           rest == sync[s].missing \ {cat_name}
           conflict == NameConflict(Visible(categories, pending[s].categories), cat_name, u)
           row == CategoryRow(seq.category, cat_name, u)
       IN  /\ ~NameHeld(s, "categories", cat_name, u)
           /\ pending' = [pending EXCEPT ![s].categories =
                                              OnConflictDoNothing(conflict, @, row)]
           /\ sync' = [sync EXCEPT ![s].missing = rest,
                                   ![s].inserted = IF conflict THEN @ ELSE @ + 1,
                                   ![s].pc = IF rest = {} THEN "exercises" ELSE @]
  /\ seq' = [seq EXCEPT !.category = @ + 1]
  /\ UNCHANGED <<catalogTables, session_state, synced_snapshot, sync_runs>>
  /\ SyncFrame

\* Lines 54-60: the two SELECTs and the set difference.
SyncReadExercises(s) ==
  /\ sync[s].pc = "exercises"
  /\ LET u == sync[s].user
         base == {[name |-> r.name, default_notes |-> r.default_notes] : r \in base_exercises}
         missing_exercises ==
           {r.name : r \in base}
             \ NamesOf(Visible(exerciselibrary, pending[s].exerciselibrary), u)
     IN  sync' = [sync EXCEPT ![s].missing = missing_exercises,
                              ![s].base_read = base,
                              ![s].pc = IF missing_exercises # {}
                                          THEN "insert_exercise" ELSE "pairs"]
  /\ UNCHANGED <<catalogTables, seq, session_state, pending, synced_snapshot, sync_runs>>
  /\ SyncFrame

\* Lines 63-65, one iteration of the loop of line 63.
SyncInsertExercise(s) ==
  /\ sync[s].pc = "insert_exercise"
  /\ \E ex_name \in sync[s].missing :
       \E b \in {x \in sync[s].base_read : x.name = ex_name} :
         LET u == sync[s].user
             rest == sync[s].missing \ {ex_name}
             conflict ==
               NameConflict(Visible(exerciselibrary, pending[s].exerciselibrary), ex_name, u)
             row == [id |-> seq.exercise, name |-> ex_name,
                     default_notes |-> b.default_notes, user_id |-> u]
         IN  /\ ~NameHeld(s, "exerciselibrary", ex_name, u)
             /\ pending' = [pending EXCEPT ![s].exerciselibrary =
                                                OnConflictDoNothing(conflict, @, row)]
             /\ sync' = [sync EXCEPT ![s].missing = rest,
                                     ![s].inserted = IF conflict THEN @ ELSE @ + 1,
                                     ![s].pc = IF rest = {} THEN "pairs" ELSE @]
  /\ seq' = [seq EXCEPT !.exercise = @ + 1]
  /\ UNCHANGED <<catalogTables, session_state, synced_snapshot, sync_runs>>
  /\ SyncFrame

\* Lines 69-75: the join is read.
SyncReadPairs(s) ==
  /\ sync[s].pc = "pairs"
  /\ sync' = [sync EXCEPT ![s].pairs = BasePairs,
                          ![s].pc = IF BasePairs # {} THEN "link" ELSE "commit"]
  /\ UNCHANGED <<catalogTables, seq, session_state, pending, synced_snapshot, sync_runs>>
  /\ SyncFrame

\* Lines 79-88, one iteration of the loop of line 77: both ids are looked
\* up and the link is inserted when both were found.
SyncLinkPair(s) ==
  /\ sync[s].pc = "link"
  /\ \E pair \in sync[s].pairs :
       LET u == sync[s].user
           rest == sync[s].pairs \ {pair}
           ex_id_res == IdsOf(Visible(exerciselibrary, pending[s].exerciselibrary), pair[1], u)
           cat_id_res == IdsOf(Visible(categories, pending[s].categories), pair[2], u)
           links == Visible(exercisecategories, pending[s].exercisecategories)
           after == [sync EXCEPT ![s].pairs = rest,
                                 ![s].pc = IF rest = {} THEN "commit" ELSE @]
       IN  IF ex_id_res # {} /\ cat_id_res # {}
             THEN \E exercise_id \in ex_id_res, category_id \in cat_id_res :
                    LET conflict == LinkConflict(links, exercise_id, category_id)
                        row == [row |-> seq.link, exercise_id |-> exercise_id,
                                category_id |-> category_id, user_id |-> u]
                    IN  /\ ~LinkHeld(s, exercise_id, category_id)
                        /\ pending' = [pending EXCEPT ![s].exercisecategories =
                                                        OnConflictDoNothing(conflict, @, row)]
                        /\ sync' = [after EXCEPT ![s].inserted =
                                                   IF conflict THEN @ ELSE @ + 1]
                        /\ seq' = [seq EXCEPT !.link = @ + 1]
             ELSE /\ sync' = after
                  /\ UNCHANGED <<pending, seq>>
  /\ UNCHANGED <<catalogTables, session_state, synced_snapshot, sync_runs>>
  /\ SyncFrame

\* except-branch variant that commits what the transaction holds.
CommitOnError(committed, own) == committed \cup own

\* pg_conn.rollback() (line 96): the transaction's rows are dropped.
Rollback(committed, own) == committed

\* Lines 90-92: commit, then the session flag.
SyncCommit(s) ==
  /\ sync[s].pc = "commit"
  /\ categories' = categories \cup pending[s].categories
  /\ exerciselibrary' = exerciselibrary \cup pending[s].exerciselibrary
  /\ exercisecategories' = exercisecategories \cup pending[s].exercisecategories
  /\ pending' = [pending EXCEPT ![s] = NoPending]
  /\ session_state' = [session_state EXCEPT ![s].synced = TRUE]
  /\ sync' = [sync EXCEPT ![s].pc = "idle", ![s].result = "committed"]
  /\ LET u == sync[s].user
     IN  synced_snapshot' =
           IF synced_snapshot[u].taken THEN synced_snapshot
           ELSE [synced_snapshot EXCEPT ![u] = [taken |-> TRUE, catalog |-> CommittedCatalog(u)']]
  /\ UNCHANGED <<seq, sync_runs>>
  /\ SyncFrame

\* Lines 94-96: a statement (or the commit) raises; the exception is logged
\* and the transaction rolled back; the call returns.
SyncFails(s) ==
  /\ sync[s].pc # "idle"
  /\ categories' = Rollback(categories, pending[s].categories)
  /\ exerciselibrary' = Rollback(exerciselibrary, pending[s].exerciselibrary)
  /\ exercisecategories' = Rollback(exercisecategories, pending[s].exercisecategories)
  /\ pending' = [pending EXCEPT ![s] = NoPending]
  /\ sync' = [sync EXCEPT ![s].pc = "idle", ![s].result = "rolled_back",
                          ![s].failed_in = sync[s].pc]
  /\ UNCHANGED <<seq, session_state, synced_snapshot, sync_runs>>
  /\ SyncFrame

(***************************************************************************)
(* Catalog creation by name: insert_base_exercise_to_library               *)
(* (logic/init.py), insert_exercise_to_library (init.py, embedded store)   *)
(* and the Add New Exercise form (logic/edit_plan_page.py).                *)
(***************************************************************************)
LocalScope == "local"     \* the embedded store has one, unnamed, scope

ExerciseNames == {"Squat", "Curl"}
CategoryLists == {<<>>, <<"Chest">>, <<"Back">>, <<"Chest", "Back">>, <<"Back", "Chest">>}

MaxIdOf(rows) ==
  IF rows = {} THEN NoId ELSE CHOOSE i \in {r.id : r \in rows} : \A r \in rows : r.id <= i

\* The names of the list that have no row yet, in list order.
Absent(names, rows) ==
  LET isNew(n) == ~\E r \in rows : r.name = n
  IN  SelectSeq(names, isNew)

\* The one id of the row named name (NoId: no such row).
IdOfName(rows, name) ==
  IF \E r \in rows : r.name = name
    THEN (CHOOSE r \in rows : r.name = name).id
    ELSE NoId

\* logic/init.py lines 144-155: INSERT ... ON CONFLICT (name) DO NOTHING
\* RETURNING id for every category name, in list order.
WithBaseCategories(category_names) ==
  LET new == Absent(category_names, base_categories)
  IN  base_categories \cup
        {[id |-> MaxIdOf(base_categories) + i, name |-> new[i]] : i \in DOMAIN new}

\* insert_base_exercise_to_library and the commit of its caller.
BaseCreate(exercise_name, default_notes, category_names) ==
  /\ deployment = "logic" /\ creation.calls < MaxCreates
  /\ LET existing == IdOfName(base_exercises, exercise_name)
         exercise_id == IF existing = NoId THEN MaxIdOf(base_exercises) + 1 ELSE existing
         cats == WithBaseCategories(category_names)
         ids == {<<category_names[i], IdOfName(cats, category_names[i])>> :
                   i \in DOMAIN category_names}
     IN  /\ base_exercises' =
               IF existing = NoId
                 THEN base_exercises \cup {[id |-> exercise_id, name |-> exercise_name,
                                            default_notes |-> default_notes]}
                 ELSE base_exercises
         /\ base_categories' = cats
         /\ base_exercise_categories' =
               base_exercise_categories \cup
                 {[exercise_id |-> exercise_id, category_id |-> p[2]] : p \in ids}
         /\ creation' = [path |-> "base", name |-> exercise_name, existing_id |-> existing,
                         exercise_id |-> exercise_id, category_ids |-> ids,
                         failed |-> FALSE, calls |-> creation.calls + 1]
  /\ UNCHANGED <<planTables, catalogTables, deployment, seq, editorVars, gen, outcome,
                 cacheVars, del, syncVars, shown, otherVars>>

\* cur.lastrowid after INSERT OR IGNORE on a fresh connection: the new rowid,
\* or no rowid at all when the insert was ignored.
LastRowId(existing, new_id) == IF existing = NoId THEN new_id ELSE NoId

\* init.py line 107: INSERT OR IGNORE for every category name, in list order.
WithLocalCategories(category_names) ==
  LET new == Absent(category_names, categories)
  IN  categories \cup
        {[id |-> MaxIdOf(categories) + i, name |-> new[i], user_id |-> LocalScope] :
           i \in DOMAIN new}

\* insert_exercise_to_library. enforced: the connection enforces the foreign
\* key of ExerciseCategories.exercise_id (a fresh connection does not set the
\* pragma; the build's default decides).
EmbeddedCreate(exercise_name, default_notes, category_names, enforced) ==
  /\ deployment = "embedded" /\ creation.calls < MaxCreates
  /\ LET existing == IdOfName(exerciselibrary, exercise_name)
         exercise_id == LastRowId(existing, MaxIdOf(exerciselibrary) + 1)
         cats == WithLocalCategories(category_names)
         ids == {<<category_names[i], IdOfName(cats, category_names[i])>> :
                   i \in DOMAIN category_names}
         links == {[row |-> MaxIdOf([id : {r.row : r \in exercisecategories}]) + p[2],
                    exercise_id |-> exercise_id, category_id |-> p[2],
                    user_id |-> LocalScope] :
                     p \in {q \in ids : ~LinkConflict(exercisecategories, exercise_id, q[2])}}
         violates == enforced /\ exercise_id = NoId /\ category_names # <<>>
         call == [path |-> "embedded", name |-> exercise_name, existing_id |-> existing,
                  exercise_id |-> exercise_id, category_ids |-> ids,
                  failed |-> violates, calls |-> creation.calls + 1]
     IN  IF violates
           THEN \* sqlite3.IntegrityError at line 113: nothing is committed.
                /\ creation' = [call EXCEPT !.category_ids = {}]
                /\ UNCHANGED catalogTables
           ELSE /\ exerciselibrary' =
                     IF existing = NoId
                       THEN exerciselibrary \cup
                              {[id |-> exercise_id, name |-> exercise_name,
                                default_notes |-> default_notes, user_id |-> LocalScope]}
                       ELSE exerciselibrary
                /\ categories' = cats
                /\ exercisecategories' = exercisecategories \cup links
                /\ creation' = call
  /\ UNCHANGED <<planTables, fixedVars, seq, editorVars, gen, outcome, cacheVars, del,
                 syncVars, shown, otherVars>>

\* The Save button of render_add_exercise_form. The first statement of the
\* try block reads the attribute "table" of the function
\* _get_supabase_client_resource itself (line 115), which raises
\* AttributeError; the except branch reports "Failed to add exercise".
FormSubmit(new_exercise_name_input, selected_categories) ==
  /\ deployment = "logic" /\ creation.calls < MaxCreates
  /\ creation' =
       IF new_exercise_name_input = ""
         THEN [NoCreation EXCEPT !.path = "form_warning", !.calls = creation.calls + 1]
         ELSE [path |-> "form", name |-> new_exercise_name_input,
               existing_id |-> IdOfName({r \in exerciselibrary : r.user_id = CurrentUser},
                                        new_exercise_name_input),
               exercise_id |-> NoId, category_ids |-> {}, failed |-> TRUE,
               calls |-> creation.calls + 1]
  /\ UNCHANGED <<planTables, catalogTables, fixedVars, seq, editorVars, gen, outcome,
                 cacheVars, del, syncVars, shown, otherVars>>

(***************************************************************************)
(* Spec: the editor and the Generate button of the hosted variants.        *)
(***************************************************************************)
UserLibrary ==
  {[id |-> 1, name |-> "Curl", default_notes |-> "", user_id |-> CurrentUser],
   [id |-> 2, name |-> "Squat", default_notes |-> "", user_id |-> CurrentUser]}

InitStore ==
  /\ exerciselibrary = UserLibrary
  /\ categories = {}
  /\ exercisecategories = {}
  /\ base_categories = {}
  /\ base_exercises = {}
  /\ base_exercise_categories = {}
  /\ macrocycles = {} /\ minicycles = {} /\ workouts = {} /\ plannedexercises = {}
  /\ seq = [macro |-> 1, mini |-> 1, workout |-> 1, planned |-> 1,
            category |-> 1, exercise |-> 3, link |-> 1]
  /\ exercise_library_data = LibraryRows
  /\ edits = 0
  /\ gen = IdleGen
  /\ outcome = NoOutcome
  /\ macro_cycles_cache = [filled |-> FALSE, data |-> {}]
  /\ details_cache = [i \in PlanIds |-> [filled |-> FALSE, data |-> NoDetail]]
  /\ del = IdleDel
  /\ SyncIdleInit

Init ==
  /\ deployment \in {"logic", "pages"}
  /\ workout_templates = <<>>
  /\ InitStore

EditorStep ==
  \/ AddDay
  \/ \E d \in DOMAIN workout_templates : RemoveDay(d)
  \/ \E d \in DOMAIN workout_templates : AddExercise(d)
  \/ \E d \in DOMAIN workout_templates : \E e \in DOMAIN workout_templates[d].exercises :
       \/ RemoveExercise(d, e)
       \/ \E c \in {SelectExercise, "Curl", "Squat"} : ApplyExerciseChoice(d, e, c)
       \/ MinusSet(d, e)
       \/ AddSet(d, e)
  \/ \E ok \in BOOLEAN : RefetchLibrary(ok)

GenerateStep(plans) ==
  \/ \E n \in MacroNames, w \in 1..MaxWeeks : GenerateClick(n, w, plans)
  \/ InsertMacroCycle
  \/ InsertMiniCycle
  \/ InsertWorkout
  \/ InsertPlannedExercise
  \/ GenerateFails

Next == EditorStep \/ GenerateStep(EditorPlans)

Spec == Init /\ [][Next]_vars

(***************************************************************************)
(* LifecycleSpec: plans are generated from a template list the editor can  *)
(* hold, read through the cached readers and deleted, in each of the three *)
(* variants. The embedded store's editor is not among the sources; its     *)
(* plans are taken to have the shape the hosted generator writes.          *)
(***************************************************************************)
NamedExercise(name, id) == [ExerciseTemplate EXCEPT !.name = name, !.library_id = id]

LifecycleTemplates ==
  {<<>>,
   <<[name |-> "Day 1", exercises |-> <<NamedExercise("Squat", NoId)>>]>>,
   <<[name |-> "Day 1", exercises |-> <<NamedExercise("Curl", NoId)>>],
     [name |-> "Day 2", exercises |-> <<>>]>>}

LifecycleInit ==
  /\ deployment \in {"logic", "pages", "embedded"}
  /\ workout_templates \in LifecycleTemplates
  /\ InitStore

ReaderStep ==
  \/ \E ok \in BOOLEAN : FetchMacroCycles(ok)
  \/ \E id \in PlanIds, ok \in BOOLEAN : FetchDetails(id, ok)
  \/ ExpireMacroCycles
  \/ \E id \in PlanIds : ExpireDetails(id)

DeleteStep ==
  \/ \E id \in PlanIds, ok \in BOOLEAN : DeleteHosted(id, ok)
  \/ \E id \in PlanIds : EmbeddedDeleteClick(id)
  \/ EmbeddedDeleteStep
  \/ EmbeddedDeleteCommit
  \/ EmbeddedDeleteFails

LifecycleNext == GenerateStep(MaxPlans) \/ ReaderStep \/ DeleteStep

LifecycleSpec == LifecycleInit /\ [][LifecycleNext]_vars

(***************************************************************************)
(* SyncSpec: calls of sync_user_data, one after the other, from two        *)
(* sessions, for every base catalog and initial user catalog drawn below.  *)
(***************************************************************************)
BaseCategoryRows == {[id |-> 1, name |-> "Chest"], [id |-> 2, name |-> "Back"]}

BaseExerciseRows ==
  {[id |-> 1, name |-> "Squat", default_notes |-> "keep chest up"],
   [id |-> 2, name |-> "Curl", default_notes |-> ""]}

\* Squat is a Chest exercise (say), Curl a Chest and a Back exercise.
BaseLinkRows ==
  {[exercise_id |-> 1, category_id |-> 1],
   [exercise_id |-> 2, category_id |-> 1],
   [exercise_id |-> 2, category_id |-> 2]}

\* Rows of another user with base names: they must not count for "u1".
OtherUserCategories == {[id |-> 1, name |-> "Chest", user_id |-> "u2"]}
OtherUserExercises ==
  {[id |-> 1, name |-> "Squat", default_notes |-> "", user_id |-> "u2"]}

\* Rows "u1" may own before the first synchronization.
OwnCategories == {[id |-> 2, name |-> "Chest", user_id |-> "u1"]}
OwnExercises ==
  {[id |-> 2, name |-> "Squat", default_notes |-> "my cue", user_id |-> "u1"]}
OwnLinks ==
  {[row |-> 1, exercise_id |-> e.id, category_id |-> c.id, user_id |-> "u1"] :
     <<e, c>> \in (OwnExercises \cap exerciselibrary) \X (OwnCategories \cap categories)}

SyncInit ==
  /\ deployment = "logic"
  /\ base_categories \in SUBSET BaseCategoryRows
  /\ base_exercises \in SUBSET BaseExerciseRows
  /\ base_exercise_categories \in
       SUBSET {l \in BaseLinkRows : /\ \E e \in base_exercises : e.id = l.exercise_id
                                    /\ \E c \in base_categories : c.id = l.category_id}
  /\ categories \in {OtherUserCategories \cup own : own \in SUBSET OwnCategories}
  /\ exerciselibrary \in {OtherUserExercises \cup own : own \in SUBSET OwnExercises}
  /\ exercisecategories \in SUBSET OwnLinks
  /\ macrocycles = {} /\ minicycles = {} /\ workouts = {} /\ plannedexercises = {}
  /\ seq = [macro |-> 1, mini |-> 1, workout |-> 1, planned |-> 1,
            category |-> 3, exercise |-> 3, link |-> 2]
  /\ workout_templates = <<>>
  /\ exercise_library_data = LibraryRows
  /\ edits = 0
  /\ gen = IdleGen
  /\ outcome = NoOutcome
  /\ macro_cycles_cache = [filled |-> FALSE, data |-> {}]
  /\ details_cache = [i \in PlanIds |-> [filled |-> FALSE, data |-> NoDetail]]
  /\ del = IdleDel
  /\ session_state = [s \in Sessions |-> [user |-> "u1", synced |-> FALSE]]
  /\ sync = [s \in Sessions |-> IdleSync]
  /\ pending = [s \in Sessions |-> NoPending]
  /\ synced_snapshot = [u \in Users |-> [taken |-> FALSE, catalog |-> NoPending]]
  /\ sync_runs = 0
  /\ creation = NoCreation
  /\ shown = NoDisplay
  /\ OthersIdle

SyncStep(exclusive) ==
  \E s \in Sessions :
    \/ SyncStart(s, exclusive)
    \/ SyncReadCategories(s)
    \/ SyncInsertCategory(s)
    \/ SyncReadExercises(s)
    \/ SyncInsertExercise(s)
    \/ SyncReadPairs(s)
    \/ SyncLinkPair(s)
    \/ SyncCommit(s)
    \/ SyncFails(s)

SyncNext == SyncStep(TRUE)

SyncSpec == SyncInit /\ [][SyncNext]_vars

(***************************************************************************)
(* ConcurrentSyncSpec: sync_user_data calls of two sessions, of one user   *)
(* or of two users, whose statements interleave; each call runs in the     *)
(* transaction of its own connection.                                      *)
(***************************************************************************)
ConcurrentSyncInit ==
  /\ deployment = "logic"
  /\ base_categories = BaseCategoryRows
  /\ base_exercises \in {{r} : r \in BaseExerciseRows}
  /\ base_exercise_categories \in
       SUBSET {l \in BaseLinkRows : \E e \in base_exercises : e.id = l.exercise_id}
  /\ categories \in {OtherUserCategories \cup own : own \in SUBSET OwnCategories}
  /\ exerciselibrary = OtherUserExercises
  /\ exercisecategories = {}
  /\ macrocycles = {} /\ minicycles = {} /\ workouts = {} /\ plannedexercises = {}
  /\ seq = [macro |-> 1, mini |-> 1, workout |-> 1, planned |-> 1,
            category |-> 3, exercise |-> 3, link |-> 2]
  /\ workout_templates = <<>>
  /\ exercise_library_data = LibraryRows
  /\ edits = 0
  /\ gen = IdleGen
  /\ outcome = NoOutcome
  /\ macro_cycles_cache = [filled |-> FALSE, data |-> {}]
  /\ details_cache = [i \in PlanIds |-> [filled |-> FALSE, data |-> NoDetail]]
  /\ del = IdleDel
  /\ \E other \in Users :
       session_state = [s \in Sessions |->
                          [user |-> IF s = "s1" THEN "u1" ELSE other, synced |-> FALSE]]
  /\ sync = [s \in Sessions |-> IdleSync]
  /\ pending = [s \in Sessions |-> NoPending]
  /\ synced_snapshot = [u \in Users |-> [taken |-> FALSE, catalog |-> NoPending]]
  /\ sync_runs = 0
  /\ creation = NoCreation
  /\ shown = NoDisplay
  /\ OthersIdle

ConcurrentSyncNext == SyncStep(FALSE)

ConcurrentSyncSpec == ConcurrentSyncInit /\ [][ConcurrentSyncNext]_vars

(***************************************************************************)
(* SeededSyncSpec: sync_user_data calls of the sessions of one user while  *)
(* seeding adds entries to the base catalog between the calls.             *)
(***************************************************************************)
\* seed_base_data adds one entry while no sync_user_data call is running.
SeedGrows(exercise_name, category_names) ==
  /\ SyncIdle
  /\ creation.calls < MaxSeeds
  /\ BaseCreate(exercise_name, "", category_names)

SeededSyncInit ==
  /\ deployment = "logic"
  /\ base_categories \in SUBSET {[id |-> 1, name |-> "Chest"]}
  /\ base_exercises \in
       SUBSET {[id |-> 1, name |-> "Squat", default_notes |-> "keep chest up"]}
  /\ base_exercise_categories = {}
  /\ categories \in {OtherUserCategories \cup own : own \in SUBSET OwnCategories}
  /\ exerciselibrary \in {OtherUserExercises \cup own : own \in SUBSET OwnExercises}
  /\ exercisecategories = {}
  /\ macrocycles = {} /\ minicycles = {} /\ workouts = {} /\ plannedexercises = {}
  /\ seq = [macro |-> 1, mini |-> 1, workout |-> 1, planned |-> 1,
            category |-> 3, exercise |-> 3, link |-> 2]
  /\ workout_templates = <<>>
  /\ exercise_library_data = LibraryRows
  /\ edits = 0
  /\ gen = IdleGen
  /\ outcome = NoOutcome
  /\ macro_cycles_cache = [filled |-> FALSE, data |-> {}]
  /\ details_cache = [i \in PlanIds |-> [filled |-> FALSE, data |-> NoDetail]]
  /\ del = IdleDel
  /\ SyncIdleInit

SeededSyncNext ==
  \/ SyncStep(TRUE)
  \/ \E n \in ExerciseNames, cs \in {<<>>, <<"Back">>} : SeedGrows(n, cs)

SeededSyncSpec == SeededSyncInit /\ [][SeededSyncNext]_vars

(***************************************************************************)
(* EditorSpec: every editor operation, RIR and notes inputs included,      *)
(* from templates the editor can have built, followed by Generate.         *)
(***************************************************************************)
\* One day with one exercise whose set count was clicked to sets.
BuiltTemplate(sets) ==
  <<[name |-> "Day 1",
     exercises |-> <<[NamedExercise("Squat", NoId) EXCEPT
                        !.sets = sets, !.rirs = [i \in 1..sets |-> DefaultRir]]>>]>>

EditorTemplates == {<<>>} \cup {BuiltTemplate(s) : s \in {MinSets, MaxSets - 1, MaxSets}}

EditorInit ==
  /\ deployment \in {"logic", "pages"}
  /\ workout_templates \in EditorTemplates
  /\ InitStore

\* The set inputs the user touches: the first and the last of the row.
TouchedSets(et) == {1, et.sets}

\* The editor takes EditorEdits operations at most.
Budget == edits < EditorEdits

EditorNext ==
  \/ Budget /\ AddDay
  \/ \E d \in DOMAIN workout_templates : Budget /\ RemoveDay(d)
  \/ \E d \in DOMAIN workout_templates : Budget /\ AddExercise(d)
  \/ \E d \in DOMAIN workout_templates : \E e \in DOMAIN workout_templates[d].exercises :
       Budget /\ RemoveExercise(d, e)
  \/ \E d \in DOMAIN workout_templates : \E e \in DOMAIN workout_templates[d].exercises :
       Budget /\ ApplyExerciseChoice(d, e, "Squat")
  \/ \E d \in DOMAIN workout_templates : \E e \in DOMAIN workout_templates[d].exercises :
       Budget /\ MinusSet(d, e)
  \/ \E d \in DOMAIN workout_templates : \E e \in DOMAIN workout_templates[d].exercises :
       Budget /\ AddSet(d, e)
  \/ \E d \in DOMAIN workout_templates : \E e \in DOMAIN workout_templates[d].exercises :
       \E i \in TouchedSets(workout_templates[d].exercises[e]), v \in RirInput :
         Budget /\ SetRir(d, e, i, v)
  \/ \E d \in DOMAIN workout_templates : \E e \in DOMAIN workout_templates[d].exercises :
       \E text \in NoteTexts : Budget /\ SetNotes(d, e, text)
  \/ GenerateClick("Winter Bulk", 1, EditorPlans)
  \/ InsertMacroCycle
  \/ InsertMiniCycle
  \/ InsertWorkout
  \/ InsertPlannedExercise
  \/ GenerateFails

EditorSpec == EditorInit /\ [][EditorNext]_vars

(***************************************************************************)
(* DisplaySpec: the Plan Reader on a stored plan of up to MaxShownWeeks    *)
(* weeks.                                                                  *)
(***************************************************************************)
\* Templates as the editor holds them after a generate call: Squat authored
\* before Curl; two days named alike (a day removed, a day added).
DisplayTemplates ==
  {<<[name |-> "Day 1",
      exercises |-> <<NamedExercise("Squat", 2), NamedExercise("Curl", 1)>>],
     [name |-> "Day 2", exercises |-> <<NamedExercise("Curl", 1)>>]>>,
   <<[name |-> "Day 2", exercises |-> <<NamedExercise("Squat", 2)>>],
     [name |-> "Day 2", exercises |-> <<>>]>>}

RECURSIVE ExercisesBefore(_, _)
ExercisesBefore(ts, d) ==
  IF d = 1 THEN 0 ELSE ExercisesBefore(ts, d - 1) + Len(ts[d - 1].exercises)

\* The rows the generator writes for num_weeks weeks of templates ts into an
\* empty store: ids follow the order of the inserts.
GeneratedPlan(macro_name, num_weeks, ts) ==
  LET perWeek == ExercisesBefore(ts, Len(ts) + 1)
      workout_id(k, d) == (k - 1) * Len(ts) + d
  IN  [macrocycles |-> {MacroRow(1, macro_name)},
       minicycles |-> {MiniRow(k, 1, k) : k \in 1..num_weeks},
       workouts |-> {WorkoutRow(workout_id(k, d), k, ts[d]) :
                       k \in 1..num_weeks, d \in DOMAIN ts},
       plannedexercises |->
         UNION {UNION {{PlannedRow((k - 1) * perWeek + ExercisesBefore(ts, d) + e,
                                   workout_id(k, d), ts[d].exercises[e]) :
                          e \in DOMAIN ts[d].exercises} :
                         d \in DOMAIN ts} :
                  k \in 1..num_weeks}]

DisplayInit ==
  /\ deployment = "logic"
  /\ workout_templates \in DisplayTemplates
  /\ \E num_weeks \in 1..MaxShownWeeks :
       LET plan == GeneratedPlan("Winter Bulk", num_weeks, workout_templates)
       IN  /\ macrocycles = plan.macrocycles
           /\ minicycles = plan.minicycles
           /\ workouts = plan.workouts
           /\ plannedexercises = plan.plannedexercises
           /\ seq = [macro |-> 2, mini |-> num_weeks + 1,
                     workout |-> Cardinality(plan.workouts) + 1,
                     planned |-> Cardinality(plan.plannedexercises) + 1,
                     category |-> 1, exercise |-> 3, link |-> 1]
  /\ exerciselibrary = UserLibrary
  /\ categories = {}
  /\ exercisecategories = {}
  /\ base_categories = {}
  /\ base_exercises = {}
  /\ base_exercise_categories = {}
  /\ exercise_library_data = LibraryRows
  /\ edits = 0
  /\ gen = IdleGen
  /\ outcome = NoOutcome
  /\ macro_cycles_cache = [filled |-> FALSE, data |-> {}]
  /\ details_cache = [i \in PlanIds |-> [filled |-> FALSE, data |-> NoDetail]]
  /\ del = IdleDel
  /\ SyncIdleInit

DisplayNext ==
  \/ \E ok \in BOOLEAN : FetchMacroCycles(ok)
  \/ \E id \in PlanIds, ok \in BOOLEAN : FetchDetails(id, ok)
  \/ ExpireMacroCycles
  \/ \E id \in PlanIds : ExpireDetails(id)
  \/ \E id \in PlanIds, response \in ResponseOrders : RenderPlan(id, response)

DisplaySpec == DisplayInit /\ [][DisplayNext]_vars

(***************************************************************************)
(* CatalogSpec: create-by-name calls against a small catalog.              *)
(***************************************************************************)
CatalogScope == IF deployment = "embedded" THEN LocalScope ELSE CurrentUser

CatalogInit ==
  /\ deployment \in {"logic", "embedded"}
  /\ base_categories \in SUBSET {[id |-> 1, name |-> "Chest"]}
  /\ base_exercises \in SUBSET {[id |-> 1, name |-> "Squat", default_notes |-> ""]}
  /\ base_exercise_categories = {}
  /\ \E cs \in SUBSET {"Chest"}, es \in SUBSET {"Squat"} :
       /\ categories = {[id |-> 1, name |-> n, user_id |-> CatalogScope] : n \in cs}
       /\ exerciselibrary = {[id |-> 1, name |-> n, default_notes |-> "",
                              user_id |-> CatalogScope] : n \in es}
  /\ exercisecategories = {}
  /\ macrocycles = {} /\ minicycles = {} /\ workouts = {} /\ plannedexercises = {}
  /\ seq = [macro |-> 1, mini |-> 1, workout |-> 1, planned |-> 1,
            category |-> 2, exercise |-> 2, link |-> 1]
  /\ workout_templates = <<>>
  /\ exercise_library_data = {}
  /\ edits = 0
  /\ gen = IdleGen
  /\ outcome = NoOutcome
  /\ macro_cycles_cache = [filled |-> FALSE, data |-> {}]
  /\ details_cache = [i \in PlanIds |-> [filled |-> FALSE, data |-> NoDetail]]
  /\ del = IdleDel
  /\ SyncIdleInit

CatalogNext ==
  \/ \E n \in ExerciseNames, cs \in CategoryLists : BaseCreate(n, "", cs)
  \/ \E n \in ExerciseNames, cs \in CategoryLists, enforced \in BOOLEAN :
       EmbeddedCreate(n, "", cs, enforced)
  \/ \E n \in ExerciseNames \cup {""}, cs \in CategoryLists : FormSubmit(n, cs)

CatalogSpec == CatalogInit /\ [][CatalogNext]_vars

(***************************************************************************)
(* ScopeSpec: two sessions sign in through the one Supabase client that    *)
(* st.cache_resource hands to every session, read the exercise library     *)
(* through the st.cache_data reader, and session "s1" edits and generates  *)
(* a plan from what it was given.                                          *)
(***************************************************************************)
EditorSession == "s1"

\* The rows the row-level policy of exerciselibrary lets the signed-in user
\* of a client read (none for a client that is signed out).
RowsReadable(client_user) ==
  {[id |-> r.id, name |-> r.name] : r \in {x \in exerciselibrary : x.user_id = client_user}}

LoggedIn(s) == session_state[s].user # ""

ScopeFrame ==
  UNCHANGED <<planTables, catalogTables, fixedVars, seq, workout_templates, edits, gen,
              outcome, cacheVars, del, sync, pending, synced_snapshot, sync_runs,
              creation, shown, selection, loggerVars>>

\* login_form, "Log In" (app.py 107-112): sign_in_with_password on the
\* client every session shares, then st.session_state.user = res.user.
SignIn(s, u) ==
  /\ ~LoggedIn(s)
  /\ session_state' = [session_state EXCEPT ![s].user = u]
  /\ scope' = [scope EXCEPT !.client_user = u]
  /\ UNCHANGED exercise_library_data
  /\ ScopeFrame

\* _get_exercise_library_data() called by the page of session s: the cached
\* list when st.cache_data holds one (the function has no argument, so one
\* entry serves every session), else the rows the client can read.
GetExerciseLibraryData(s) ==
  /\ LoggedIn(s)
  /\ gen.pc = "idle"
  /\ LET data == IF scope.cache.filled THEN scope.cache.data
                  ELSE RowsReadable(scope.client_user)
     IN  /\ scope' = [scope EXCEPT !.cache = [filled |-> TRUE, data |-> data],
                                   !.reads = @ + 1]
         /\ exercise_library_data' =
              IF s = EditorSession THEN data ELSE exercise_library_data
  /\ scope.reads < MaxReads
  /\ UNCHANGED session_state
  /\ ScopeFrame

\* ttl=3600: the cached list expires.
ExpireLibrary ==
  /\ scope.cache.filled
  /\ scope' = [scope EXCEPT !.cache = [filled |-> FALSE, data |-> {}]]
  /\ UNCHANGED <<session_state, exercise_library_data>>
  /\ ScopeFrame

OtherUserLibrary ==
  {[id |-> 3, name |-> "Squat", default_notes |-> "", user_id |-> "u2"]}

ScopeInit ==
  /\ deployment = "logic"
  /\ workout_templates = <<>>
  /\ exerciselibrary = UserLibrary \cup OtherUserLibrary
  /\ categories = {}
  /\ exercisecategories = {}
  /\ base_categories = {}
  /\ base_exercises = {}
  /\ base_exercise_categories = {}
  /\ macrocycles = {} /\ minicycles = {} /\ workouts = {} /\ plannedexercises = {}
  /\ seq = [macro |-> 1, mini |-> 1, workout |-> 1, planned |-> 1,
            category |-> 1, exercise |-> 4, link |-> 1]
  /\ exercise_library_data = {}
  /\ edits = 0
  /\ gen = IdleGen
  /\ outcome = NoOutcome
  /\ macro_cycles_cache = [filled |-> FALSE, data |-> {}]
  /\ details_cache = [i \in PlanIds |-> [filled |-> FALSE, data |-> NoDetail]]
  /\ del = IdleDel
  /\ session_state = [s \in Sessions |-> [user |-> "", synced |-> FALSE]]
  /\ sync = [s \in Sessions |-> IdleSync]
  /\ pending = [s \in Sessions |-> NoPending]
  /\ synced_snapshot = [u \in Users |-> [taken |-> FALSE, catalog |-> NoPending]]
  /\ sync_runs = 0
  /\ creation = NoCreation
  /\ shown = NoDisplay
  /\ OthersIdle

ScopeNext ==
  \/ \E s \in Sessions, u \in Users : SignIn(s, u)
  \/ \E s \in Sessions : GetExerciseLibraryData(s)
  \/ ExpireLibrary
  \/ LoggedIn(EditorSession) /\ AddDay
  \/ \E d \in DOMAIN workout_templates : LoggedIn(EditorSession) /\ AddExercise(d)
  \/ \E d \in DOMAIN workout_templates : \E e \in DOMAIN workout_templates[d].exercises :
       \E c \in {SelectExercise, "Curl", "Squat"} :
         LoggedIn(EditorSession) /\ ApplyExerciseChoice(d, e, c)
  \/ LoggedIn(EditorSession) /\ GenerateClick("Winter Bulk", 1, EditorPlans)
  \/ InsertMacroCycle
  \/ InsertMiniCycle
  \/ InsertWorkout
  \/ InsertPlannedExercise
  \/ GenerateFails

ScopeSpec == ScopeInit /\ [][ScopeNext]_vars

(***************************************************************************)
(* SelectorSpec: the plan selector of the Plan Reader (_select_macro_plan  *)
(* of the hosted variant, the macro_options dict of the embedded one) over *)
(* stored macrocycles whose names may repeat.                              *)
(***************************************************************************)
PlanNames == {"Bulk", "Cut", "Bulk (ID: 1)"}

\* name_counts[name] of lines 27-29.
NameCount(macro_cycles, name) ==
  Cardinality({i \in DOMAIN macro_cycles : macro_cycles[i].name = name})

\* Lines 38-40: the name, or f"{name} (ID: {macro_id})" when the name repeats.
DisplayNameOf(macro_cycles, mc) ==
  IF NameCount(macro_cycles, mc.name) > 1
    THEN mc.name \o " (ID: " \o ToString(mc.id) \o ")"
    ELSE mc.name

\* macro_display_options (line 42).
MacroDisplayOptions(macro_cycles) ==
  [i \in DOMAIN macro_cycles |-> DisplayNameOf(macro_cycles, macro_cycles[i])]

\* The keys of {name: id for id, name in macros}: each name once, at the
\* position of its first row.
MacroOptionKeys(macros) ==
  LET firsts == {i \in DOMAIN macros : \A j \in 1..(i - 1) : macros[j].name # macros[i].name}
      nth(k) == CHOOSE i \in firsts : Cardinality({j \in firsts : j < i}) = k - 1
  IN  [k \in 1..Cardinality(firsts) |-> macros[nth(k)].name]

\* dict[key] after the assignments of the loop: a later row with the same
\* key has replaced the earlier one.
LastAssigned(keys, rows, key) ==
  LET last == CHOOSE i \in DOMAIN keys :
                keys[i] = key /\ \A j \in DOMAIN keys : keys[j] = key => j <= i
  IN  rows[last].id

\* The selectbox of the page and the id its pick resolves to.
SelectMacroPlan(pick) ==
  /\ macrocycles # {}
  /\ LET macro_cycles == SortById(macrocycles)
         keys == IF deployment = "embedded"
                   THEN [i \in DOMAIN macro_cycles |-> macro_cycles[i].name]
                   ELSE MacroDisplayOptions(macro_cycles)
         options == IF deployment = "embedded" THEN MacroOptionKeys(macro_cycles) ELSE keys
     IN  /\ pick \in DOMAIN options
         /\ selection' =
              [options |-> options,
               to_id |-> {LastAssigned(keys, macro_cycles, options[k]) : k \in DOMAIN options},
               chosen |-> pick,
               display_name |-> options[pick],
               macro_id |-> LastAssigned(keys, macro_cycles, options[pick])]
  /\ UNCHANGED <<planTables, catalogTables, fixedVars, seq, editorVars, gen, outcome,
                 cacheVars, del, syncVars, creation, shown, scope, loggerVars>>

SelectorInit ==
  /\ deployment \in {"logic", "embedded"}
  /\ \E n \in 1..MaxListed : \E names \in [1..n -> PlanNames] :
       macrocycles = {MacroRow(i, names[i]) : i \in 1..n}
  /\ minicycles = {} /\ workouts = {} /\ plannedexercises = {}
  /\ seq = [macro |-> Cardinality(macrocycles) + 1, mini |-> 1, workout |-> 1,
            planned |-> 1, category |-> 1, exercise |-> 3, link |-> 1]
  /\ workout_templates = <<>>
  /\ exerciselibrary = UserLibrary
  /\ categories = {}
  /\ exercisecategories = {}
  /\ base_categories = {}
  /\ base_exercises = {}
  /\ base_exercise_categories = {}
  /\ exercise_library_data = LibraryRows
  /\ edits = 0
  /\ gen = IdleGen
  /\ outcome = NoOutcome
  /\ macro_cycles_cache = [filled |-> FALSE, data |-> {}]
  /\ details_cache = [i \in PlanIds |-> [filled |-> FALSE, data |-> NoDetail]]
  /\ del = IdleDel
  /\ SyncIdleInit

SelectorNext == \E pick \in 1..MaxListed : SelectMacroPlan(pick)

SelectorSpec == SelectorInit /\ [][SelectorNext]_vars

(***************************************************************************)
(* LoggerSpec: render_workout_page of the embedded variant. Every action   *)
(* is one run of the page script: the query for the next workout, the      *)
(* session buffer, and the handler of the button that caused the run.      *)
(***************************************************************************)
\* The (macrocycle id, minicycle id, workout id) of a workout the joins of
\* the query keep; the empty set for a workout without its parents.
JoinedKeys(w) ==
  {<<mc.id, m.id, w.id>> :
     <<m, mc>> \in {p \in minicycles \X macrocycles :
                      p[1].id = w.mini_id /\ p[2].id = p[1].macro_id}}

\* ORDER BY mc.id, m.id, w.id
KeyBefore(a, b) ==
  \/ a[1] < b[1]
  \/ a[1] = b[1] /\ a[2] < b[2]
  \/ a[1] = b[1] /\ a[2] = b[2] /\ a[3] < b[3]

\* LEFT JOIN WorkoutLogs ... WHERE wl.id IS NULL
Unlogged == {w \in workouts : JoinedKeys(w) # {} /\ ~\E wl \in workoutlogs : wl.workout_id = w.id}

\* The query with the order reversed.
NextWorkoutLatest ==
  {w \in Unlogged : \A o \in Unlogged \ {w} :
     \E kw \in JoinedKeys(w), ko \in JoinedKeys(o) : KeyBefore(ko, kw)}

\* Lines 15-25: the result of fetchone() as a set: the first row of the
\* ordered query, or nothing.
NextWorkout ==
  {w \in Unlogged : \A o \in Unlogged \ {w} :
     \E kw \in JoinedKeys(w), ko \in JoinedKeys(o) : KeyBefore(kw, ko)}

ActualSet == [rpe |-> 7]

\* Lines 41-58: the buffer built from the blueprint rows of the workout.
Blueprint(w_id) ==
  LET templates == SortById({t \in plannedexercises : t.workout_id = w_id})
  IN  [i \in DOMAIN templates |->
         [template_id |-> templates[i].id,
          actual_sets |-> [k \in 1..templates[i].sets |-> ActualSet]]]

\* Lines 39-61: st.session_state[session_key], loaded when it is missing.
ActiveSession(w_id) ==
  IF active_session.w_id = w_id THEN active_session.buffer ELSE Blueprint(w_id)

LoggerFrame ==
  UNCHANGED <<planTables, catalogTables, fixedVars, seq, editorVars, gen, outcome,
              cacheVars, del, syncVars, creation, shown, scope, selection>>

\* Lines 27-32: nothing is left to log.
ShowsCompleted ==
  /\ active_session' = [active_session EXCEPT !.page = "completed"]
  /\ UNCHANGED <<workoutlogs, setlogs>>

\* A run of the page without a button of the session: the page is opened or
\* redrawn.
RenderWorkoutPage ==
  /\ IF NextWorkout = {} THEN ShowsCompleted
     ELSE \E w \in NextWorkout :
            /\ active_session' =
                 [page |-> "active", w_id |-> w.id, buffer |-> ActiveSession(w.id),
                  steps |-> IF active_session.w_id = w.id THEN active_session.steps ELSE 0]
            /\ UNCHANGED <<workoutlogs, setlogs>>
  /\ active_session' # active_session
  /\ LoggerFrame

\* A button of the drawn session changes the buffer and the page is rerun.
EditSession(changed) ==
  /\ active_session.page = "active"
  /\ active_session.steps < MaxSessionEdits
  /\ active_session' = [active_session EXCEPT !.buffer = changed, !.steps = @ + 1]
  /\ UNCHANGED <<workoutlogs, setlogs>>
  /\ LoggerFrame

\* Lines 66-68: the exercise is removed from today's session.
RemoveFromSession(ex_idx) ==
  /\ ex_idx \in DOMAIN active_session.buffer
  /\ EditSession(RemoveAt(active_session.buffer, ex_idx))

\* Lines 93-95: one set is removed.
RemoveActualSet(ex_idx, s_idx) ==
  /\ ex_idx \in DOMAIN active_session.buffer
  /\ s_idx \in DOMAIN active_session.buffer[ex_idx].actual_sets
  /\ EditSession([active_session.buffer EXCEPT
                    ![ex_idx].actual_sets = RemoveAt(@, s_idx)])

\* Lines 97-101: a copy of the last set, or a default set, is appended.
AddActualSet(ex_idx) ==
  /\ ex_idx \in DOMAIN active_session.buffer
  /\ EditSession([active_session.buffer EXCEPT
                    ![ex_idx].actual_sets =
                      Append(@, IF @ = <<>> THEN ActualSet ELSE @[Len(@)])])

\* Lines 105-120: an exercise that is not in the blueprint is appended.
AddExtraExercise ==
  EditSession(Append(active_session.buffer,
                     [template_id |-> NoId, actual_sets |-> <<ActualSet>>]))

RECURSIVE SetsBefore(_, _)
SetsBefore(buffer, ex_idx) ==
  IF ex_idx = 1 THEN 0
  ELSE SetsBefore(buffer, ex_idx - 1) + Len(buffer[ex_idx - 1].actual_sets)

\* Lines 129-135: one SetLogs row per set of the buffer, numbered from 1
\* within its exercise; the rowids continue the table.
SetLogRows(log_id, buffer) ==
  UNION {{[id |-> MaxIdOf(setlogs) + SetsBefore(buffer, e) + k, workout_log_id |-> log_id,
           exercise |-> e, exercise_template_id |-> buffer[e].template_id,
           set_number |-> k] : k \in DOMAIN buffer[e].actual_sets} :
         e \in DOMAIN buffer}

\* The run caused by a click on "Finish Workout", which is on the page of
\* a drawn session and stays on it after a save (lines 123-141 do not
\* rerun): the query and the buffer of this run, then lines 123-137.
FinishWorkout ==
  /\ active_session.page \in {"active", "saved"}
  /\ IF NextWorkout = {} THEN ShowsCompleted
     ELSE \E w \in NextWorkout :
            LET log_id == MaxIdOf(workoutlogs) + 1
            IN  /\ workoutlogs' = workoutlogs \cup {[id |-> log_id, workout_id |-> w.id]}
                /\ setlogs' = setlogs \cup SetLogRows(log_id, ActiveSession(w.id))
                /\ active_session' = [page |-> "saved", w_id |-> NoId, buffer |-> <<>>,
                                      steps |-> 0]
  /\ LoggerFrame

LoggerTemplates ==
  {<<[name |-> "Day 1",
      exercises |-> <<[NamedExercise("Squat", 2) EXCEPT !.sets = 2, !.rirs = <<2, 2>>],
                      [NamedExercise("Curl", 1) EXCEPT !.sets = 1, !.rirs = <<2>>]>>],
     [name |-> "Day 2", exercises |-> <<>>]>>,
   <<[name |-> "Day 1",
      exercises |-> <<[NamedExercise("Curl", 1) EXCEPT !.sets = 1, !.rirs = <<2>>]>>]>>}

LoggerInit ==
  /\ deployment = "embedded"
  /\ workout_templates = <<>>
  /\ \E num_weeks \in 1..MaxLoggedWeeks, ts \in LoggerTemplates :
       LET plan == GeneratedPlan("Winter Bulk", num_weeks, ts)
       IN  /\ macrocycles = plan.macrocycles
           /\ minicycles = plan.minicycles
           /\ workouts = plan.workouts
           /\ plannedexercises = plan.plannedexercises
           /\ seq = [macro |-> 2, mini |-> num_weeks + 1,
                     workout |-> Cardinality(plan.workouts) + 1,
                     planned |-> Cardinality(plan.plannedexercises) + 1,
                     category |-> 1, exercise |-> 3, link |-> 1]
  /\ exerciselibrary =
       {[id |-> r.id, name |-> r.name, default_notes |-> "", user_id |-> LocalScope] :
          r \in UserLibrary}
  /\ categories = {}
  /\ exercisecategories = {}
  /\ base_categories = {}
  /\ base_exercises = {}
  /\ base_exercise_categories = {}
  /\ exercise_library_data = {}
  /\ edits = 0
  /\ gen = IdleGen
  /\ outcome = NoOutcome
  /\ macro_cycles_cache = [filled |-> FALSE, data |-> {}]
  /\ details_cache = [i \in PlanIds |-> [filled |-> FALSE, data |-> NoDetail]]
  /\ del = IdleDel
  /\ SyncIdleInit

LoggerNext ==
  \/ RenderWorkoutPage
  \/ \E ex_idx \in DOMAIN active_session.buffer : RemoveFromSession(ex_idx)
  \/ \E ex_idx \in DOMAIN active_session.buffer :
       \E s_idx \in DOMAIN active_session.buffer[ex_idx].actual_sets :
         RemoveActualSet(ex_idx, s_idx)
  \/ \E ex_idx \in DOMAIN active_session.buffer : AddActualSet(ex_idx)
  \/ AddExtraExercise
  \/ FinishWorkout

LoggerSpec == LoggerInit /\ [][LoggerNext]_vars

(***************************************************************************)
(* Claims about the Plan Generator (checked under Spec).                   *)
(***************************************************************************)
Hosted == deployment \in {"logic", "pages"}

CallMinis == MinisOf(minicycles, gen.macro_id)
CallWorkouts == WorkoutsOf(workouts, minicycles, gen.macro_id)
CallPlanned == PlannedOf(plannedexercises, workouts, minicycles, gen.macro_id)

\* "Failed to save plan" is on the screen.
ReportsSaveFailure == outcome.status \in {"failed", "saved_failed"}

\* The generate call ran through every insert ("Plan Saved!" was shown).
AllInsertsSucceeded == outcome.status \in {"saved", "saved_failed"}

\* C1: plan generation is all-or-nothing: whenever the Generate handler has
\* reported "Failed to save plan", no Macrocycle, MiniCycle, Workout or
\* PlannedExercise row of that call is persisted.
C1_FailedGenerateLeavesNoRow ==
  (Hosted /\ ReportsSaveFailure) =>
     /\ ~\E m \in macrocycles : m.id = gen.macro_id
     /\ CallMinis = {}
     /\ CallWorkouts = {}
     /\ CallPlanned = {}

NamedTemplates(wt) == {e \in DOMAIN wt.exercises : wt.exercises[e].name # ""}

PlannedOfWorkout(w) == {p \in plannedexercises : p.workout_id = w.id}

\* C2: a generate call with a non-empty macro_name that ran to "Plan Saved!"
\* (every name of T resolved, every insert succeeded) for templates T and W
\* weeks has persisted exactly 1 Macrocycle, W MiniCycles named Week 1..W,
\* W*len(T) Workouts and, per Workout, exactly one PlannedExercise per named
\* exercise template of its day, each with the template's sets and an RIR
\* sequence of that length.
C2_GenerateWritesTheExpansion ==
  (Hosted /\ AllInsertsSucceeded /\ gen.macro_name # "") =>
     /\ Cardinality({m \in macrocycles : m.id = gen.macro_id}) = 1
     /\ \A m \in macrocycles : m.id = gen.macro_id => m.name = gen.macro_name
     /\ Cardinality(CallMinis) = gen.num_weeks
     /\ {m.name : m \in CallMinis} = {WeekName(k) : k \in 1..gen.num_weeks}
     /\ Cardinality(CallWorkouts) = gen.num_weeks * Len(gen.templates)
     /\ \A w \in CallWorkouts :
          \E d \in DOMAIN gen.templates :
            /\ gen.templates[d].name = w.name
            /\ Cardinality(PlannedOfWorkout(w)) =
                 Cardinality(NamedTemplates(gen.templates[d]))
            /\ \A p \in PlannedOfWorkout(w) :
                 /\ Len(p.target_rir_json) = p.sets
                 /\ \E e \in NamedTemplates(gen.templates[d]) :
                      /\ gen.templates[d].exercises[e].sets = p.sets
                      /\ gen.templates[d].exercises[e].rirs = p.target_rir_json

\* The names the validation loop cannot resolve, for the templates as they are.
PositionsNamed(ts, n) ==
  UNION {{<<d, e>> : e \in {x \in DOMAIN ts[d].exercises : ts[d].exercises[x].name = n}} :
           d \in DOMAIN ts}

TemplateNames(ts) ==
  UNION {{ts[d].exercises[e].name : e \in DOMAIN ts[d].exercises} : d \in DOMAIN ts}

Unresolved ==
  TemplateNames(workout_templates) \ ({""} \cup {p.name : p \in name_lookup})

ReportsEachUnresolvedOnce ==
  /\ outcome'.status = "missing"
  /\ Range(outcome'.names) = Unresolved
  /\ \A n \in Unresolved : Occurrences(outcome'.names, n) = 1

WritesNothing == UNCHANGED <<planTables, catalogTables, baseTables, seq>>

\* C3 as stated: a Generate click while some template has a non-empty name
\* that is not in the lookup writes no row and reports every unresolved name,
\* each exactly once.
C3_UnresolvedNamesReported_AsStated ==
  [][\A n \in MacroNames, w \in 1..MaxWeeks :
       (GenerateClick(n, w, EditorPlans) /\ Unresolved # {})
         => (WritesNothing /\ gen'.pc = "idle" /\ ReportsEachUnresolvedOnce)]_vars

\* C3 amended: a Generate click while some template has a non-empty name
\* that is not in the lookup writes no row; unless the macro name is empty
\* where it is checked (then "Please enter a macro name." is the error), the
\* error names every unresolved name, each exactly once.
C3_UnresolvedNamesReported ==
  [][\A n \in MacroNames, w \in 1..MaxWeeks :
       (GenerateClick(n, w, EditorPlans) /\ Unresolved # {})
         => /\ WritesNothing /\ gen'.pc = "idle"
            /\ IF ChecksMacroName /\ n = ""
                 THEN outcome'.status = "name_error"
                 ELSE ReportsEachUnresolvedOnce]_vars

\* Two templates carried the same unresolved name and it was reported once.
C3_Witness ==
  /\ outcome.status = "missing"
  /\ Len(outcome.names) = 1
  /\ Cardinality(PositionsNamed(gen.templates, outcome.names[1])) >= 2

\* The template list as the editor shows it (library_id is not a field of the
\* dataclass).
Shown(ts) ==
  [d \in DOMAIN ts |->
     [name |-> ts[d].name,
      exercises |-> [e \in DOMAIN ts[d].exercises |->
                       [name |-> ts[d].exercises[e].name, sets |-> ts[d].exercises[e].sets,
                        rirs |-> ts[d].exercises[e].rirs, notes |-> ts[d].exercises[e].notes]]]]

\* A step of a Generate handler that was clicked with an empty macro_name.
EmptyNameCallStep ==
  \/ \E w \in 1..MaxWeeks : GenerateClick("", w, EditorPlans)
  \/ gen.pc # "idle" /\ gen.macro_name = "" /\ GenerateStep(EditorPlans)

\* C10: a generate call with an empty macro_name is rejected before any
\* write: no step of it inserts a row into any table or changes the editor's
\* template list.
C10_EmptyMacroNameRejected ==
  [][(Hosted /\ EmptyNameCallStep)
       => (WritesNothing /\ Shown(workout_templates') = Shown(workout_templates))]_vars

(***************************************************************************)
(* Claims about the Library Synchronizer (checked under SyncSpec).         *)
(***************************************************************************)
NoDuplicateRows(u) ==
  LET c == CommittedCatalog(u)
  IN  /\ \A x, y \in c.categories : x.name = y.name => x = y
      /\ \A x, y \in c.exerciselibrary : x.name = y.name => x = y
      /\ \A x, y \in c.exercisecategories :
           (x.exercise_id = y.exercise_id /\ x.category_id = y.category_id) => x = y

\* C4: synchronization is idempotent: once a sync_user_data call has
\* committed for a user, every later call for that user (from any session,
\* with or without the in-session flag) leaves the user's categories,
\* exercises and links as that first committed call left them, and the
\* user never has two categories or two exercises of one name or two links
\* of one (exercise, category).
C4_SyncIsIdempotent ==
  \A u \in Users :
    /\ NoDuplicateRows(u)
    /\ synced_snapshot[u].taken => CommittedCatalog(u) = synced_snapshot[u].catalog

\* Both sessions have run a committed synchronization for the same user, and
\* the first of them inserted categories, exercises and links.
C4_Witness ==
  /\ sync["s1"].result = "committed" /\ sync["s2"].result = "committed"
  /\ sync["s1"].user = sync["s2"].user
  /\ sync["s1"].inserted + sync["s2"].inserted >= 3
  /\ \E l \in synced_snapshot[sync["s1"].user].catalog.exercisecategories :
       l \notin OwnLinks

\* C5: when a statement of sync_user_data raises, in whichever phase, the
\* call returns normally (the exception is handled inside it) and the
\* user's committed categories, exercises and links are what they were when
\* the call began; nothing of the transaction stays behind.
C5_FailedSyncRollsBack ==
  [][\A s \in Sessions :
       SyncFails(s) =>
         /\ CommittedCatalog(sync[s].user)' = sync[s].before
         /\ pending'[s] = NoPending
         /\ sync'[s].pc = "idle" /\ sync'[s].result = "rolled_back"
         /\ ~session_state'[s].synced]_vars

\* A call failed in the link phase after it had inserted rows.
C5_Witness ==
  \E s \in Sessions :
    /\ sync[s].result = "rolled_back"
    /\ sync[s].failed_in = "link"
    /\ sync[s].inserted >= 3
    /\ CommittedCatalog(sync[s].user) = sync[s].before

\* C6: after a sync_user_data call that committed, the user has a category
\* of every base category name, an exercise of every base exercise name
\* (with the base default notes when the call inserted it) and, for every
\* base (exercise name, category name) pair, a link between the user's
\* exercise and the user's category of those names.
C6_CommittedSyncIsComplete ==
  \A s \in Sessions :
    sync[s].result = "committed" =>
      LET c == CommittedCatalog(sync[s].user)
      IN  /\ \A b \in base_categories : \E x \in c.categories : x.name = b.name
          /\ \A b \in base_exercises :
               \E x \in c.exerciselibrary :
                 /\ x.name = b.name
                 /\ x \notin sync[s].before.exerciselibrary
                      => x.default_notes = b.default_notes
          /\ \A pair \in BasePairs :
               \E x \in c.exerciselibrary, y \in c.categories, l \in c.exercisecategories :
                 /\ x.name = pair[1] /\ y.name = pair[2]
                 /\ l.exercise_id = x.id /\ l.category_id = y.id

\* A committed call linked an exercise and a category it had inserted itself.
C6_Witness ==
  \E s \in Sessions :
    /\ sync[s].result = "committed"
    /\ \E l \in CommittedCatalog(sync[s].user).exercisecategories :
         /\ l.exercise_id \notin {x.id : x \in sync[s].before.exerciselibrary}
         /\ l.category_id \notin {x.id : x \in sync[s].before.categories}
         /\ l \notin sync[s].before.exercisecategories

(***************************************************************************)
(* Claims about deletion and referential integrity (checked under          *)
(* LifecycleSpec).                                                         *)
(***************************************************************************)
\* The delete of del.macro_id went through ("Plan deleted successfully!").
DeleteCompleted == outcome.status \in {"deleted", "deleted_failed"}

\* C7: after the delete action for a persisted macrocycle id has completed,
\* reading the macrocycle detail for that id returns none, also when the
\* read goes through the cached reader, and no MiniCycle, Workout or
\* PlannedExercise row that belonged to that macrocycle remains.
C7_DeletedPlanIsGone ==
  (DeleteCompleted /\ del.had.macros # {}) =>
     /\ ~ReadDetails(del.macro_id).found
     /\ ~Detail(del.macro_id).found
     /\ del.had.minis \cap minicycles = {}
     /\ del.had.workouts \cap workouts = {}
     /\ del.had.planned \cap plannedexercises = {}

\* The cached variant deleted a plan with planned exercises and the plan
\* list has been read again since.
C7_Witness ==
  /\ deployment = "logic" /\ DeleteCompleted
  /\ del.had.planned # {}
  /\ macro_cycles_cache.filled

\* The rows of the plan the last delete was for, as they are now.
Remaining ==
  [macros |-> del.had.macros \cap macrocycles,
   minis |-> del.had.minis \cap minicycles,
   workouts |-> del.had.workouts \cap workouts,
   planned |-> del.had.planned \cap plannedexercises]

\* C8: deletion is all-or-nothing: when a step of the delete has failed
\* (one of the four DELETE statements or the commit of the embedded store,
\* the single delete request of the hosted store), the macrocycle and all
\* its MiniCycles, Workouts and planned exercises are present as they were;
\* and in no state are some rows of the plan deleted while its macrocycle
\* row is not.
C8_DeleteIsAllOrNothing ==
  /\ outcome.status = "delete_failed" => Remaining = del.had
  /\ Remaining.macros # {} => Remaining = del.had

\* The embedded delete failed after its first three DELETE statements had
\* removed planned exercises, workouts and minicycles from the transaction.
C8_Witness ==
  /\ deployment = "embedded"
  /\ outcome.status = "delete_failed"
  /\ del.failed_at \in {"macro", "commit"}
  /\ del.had.planned # {}

Parented(minis, macros) == \A m \in minis : \E p \in macros : p.id = m.macro_id
WorkoutsParented(ws, minis) == \A w \in ws : \E p \in minis : p.id = w.mini_id
PlannedParented(pes, ws) == \A e \in pes : \E p \in ws : p.id = e.workout_id

\* C9: in every state, the intermediate states of a generate call and of a
\* delete included, every MiniCycle's macro_id names an existing Macrocycle,
\* every Workout's mini_id an existing MiniCycle and every PlannedExercise's
\* workout_id an existing Workout, in the stored tables and in what the
\* deleting transaction sees; so a generate call inserts each row after its
\* parent row.
C9_ReferentialIntegrity ==
  /\ Parented(minicycles, macrocycles)
  /\ WorkoutsParented(workouts, minicycles)
  /\ PlannedParented(plannedexercises, workouts)
  /\ Parented(TxMinis, TxMacros)
  /\ WorkoutsParented(TxWorkouts, TxMinis)
  /\ PlannedParented(TxPlanned, TxWorkouts)

\* Inside a delete that has removed the plan's planned exercises and
\* workouts but not yet its minicycles, while another plan is stored.
C9_Witness ==
  /\ del.pc = "minis"
  /\ del.gone.planned # {} /\ del.gone.workouts # {}
  /\ TxMinis # {}
  /\ Cardinality(macrocycles) >= 2

(***************************************************************************)
(* Claims about the end of a generate call (checked under Spec).           *)
(***************************************************************************)
CachesCleared ==
  /\ ~macro_cycles_cache.filled
  /\ \A i \in DOMAIN details_cache : ~details_cache[i].filled

\* C11: the step that ends a generate call in which all inserts succeeded
\* reports success (and no failure), leaves the cached plan list and plan
\* details cleared and resets workout_templates to the empty list.
C11_SuccessfulGenerateResets ==
  [][(Hosted /\ gen.pc # "idle" /\ gen'.pc = "idle" /\ AllInsertsSucceeded')
       => /\ outcome'.status = "saved"
          /\ workout_templates' = <<>>
          /\ CachesCleared']_vars

(***************************************************************************)
(* Claims about catalog creation by name (checked under CatalogSpec).      *)
(***************************************************************************)
\* The table a creation path writes exercises to.
CreatedIn == IF creation.path = "base" THEN base_exercises ELSE exerciselibrary

\* C12: after a create-by-name call for a name that already had a row, the
\* call has not ended in an error, the table holds exactly one row of that
\* name, and the call went on with the id of the existing row.
C12_CreateByNameIsIdempotent ==
  (creation.path \in {"base", "embedded", "form"} /\ creation.existing_id # NoId)
    => /\ ~creation.failed
       /\ Cardinality({r \in CreatedIn : r.name = creation.name}) = 1
       /\ creation.exercise_id = creation.existing_id

(***************************************************************************)
(* Claims about the editor (checked under EditorSpec).                     *)
(***************************************************************************)
\* The step keeps the days and the exercises of every day in place.
SameShape ==
  /\ Len(workout_templates') = Len(workout_templates)
  /\ \A d \in DOMAIN workout_templates :
       Len(workout_templates'[d].exercises) = Len(workout_templates[d].exercises)

\* C13: a step that changes the set count of an exercise resizes its RIR list
\* in the same step: raising from s keeps the first s values and appends
\* entries equal to 2, lowering to s' keeps exactly the first s' values.
C13_SetsResizeRirs ==
  [][SameShape =>
       \A d \in DOMAIN workout_templates : \A e \in DOMAIN workout_templates[d].exercises :
         LET old == workout_templates[d].exercises[e]
             new == workout_templates'[d].exercises[e]
         IN  /\ new.sets > old.sets =>
                  new.rirs = SubSeq(old.rirs, 1, old.sets)
                               \o [k \in 1..(new.sets - old.sets) |-> DefaultRir]
             /\ new.sets < old.sets => new.rirs = SubSeq(old.rirs, 1, new.sets)]_vars

\* A set count only the plus button produces here, with an edited first
\* value kept and a 2 appended.
C13_Witness ==
  \E d \in DOMAIN workout_templates : \E e \in DOMAIN workout_templates[d].exercises :
    /\ workout_templates[d].exercises[e].sets = MinSets + 1
    /\ workout_templates[d].exercises[e].rirs = <<5, DefaultRir>>

\* Every exercise template of the editor.
AllTemplates ==
  UNION {Range(workout_templates[d].exercises) : d \in DOMAIN workout_templates}

\* C14: every exercise template has 1 <= sets <= 20 and as many RIR values as
\* sets; the minus button at 1 and the plus button at 20 leave it unchanged.
C14_SetsWithinLimits ==
  \A et \in AllTemplates :
    /\ MinSets <= et.sets /\ et.sets <= MaxSets
    /\ Len(et.rirs) = et.sets
    /\ et.sets = MinSets => DecrementSets(et) = et
    /\ et.sets = MaxSets => IncrementSets(et) = et

\* A template at the upper limit after two further operations on it.
C14_Witness ==
  /\ edits >= 2
  /\ \E et \in AllTemplates : et.sets = MaxSets /\ et.rirs[1] = 0 /\ et.notes = "slow"

\* C15: every RIR value of a template, and every RIR value stored in a
\* plannedexercises row, is an integer from 0 to 5.
C15_RirInRange ==
  /\ \A et \in AllTemplates : \A i \in DOMAIN et.rirs : et.rirs[i] \in 0..5
  /\ \A r \in plannedexercises :
       \A i \in DOMAIN r.target_rir_json : r.target_rir_json[i] \in 0..5

\* A stored row that carries both ends of the range.
C15_Witness ==
  \E r \in plannedexercises :
    /\ r.target_rir_json[1] = 0
    /\ r.target_rir_json[Len(r.target_rir_json)] = 5

(***************************************************************************)
(* Claims about the in-session sync flag (checked under SyncSpec).         *)
(***************************************************************************)
\* C16: once the flag of a session is set, every step of a sync_user_data
\* call of that session is the return of line 35: the call ends at once as
\* skipped, and no table and no open transaction changes.
C16_SyncedSessionSkips ==
  [][\A s \in Sessions :
       (session_state[s].synced /\ sync'[s] # sync[s])
         => /\ sync'[s].pc = "idle" /\ sync'[s].result = "skipped"
            /\ UNCHANGED <<catalogTables, pending, seq>>]_vars

\* A later call of a session whose first call committed.
C16_Witness ==
  \E s \in Sessions : session_state[s].synced /\ sync[s].result = "skipped"

(***************************************************************************)
(* Claims about the flag and a growing base catalog (SeededSyncSpec).      *)
(***************************************************************************)
\* The catalog of user u has a category of every base category name, an
\* exercise of every base exercise name and a link for every base pair.
CatalogComplete(u) ==
  LET c == CommittedCatalog(u)
  IN  /\ \A b \in base_categories : \E x \in c.categories : x.name = b.name
      /\ \A b \in base_exercises : \E x \in c.exerciselibrary : x.name = b.name
      /\ \A pair \in BasePairs :
           \E x \in c.exerciselibrary, y \in c.categories, l \in c.exercisecategories :
             /\ x.name = pair[1] /\ y.name = pair[2]
             /\ l.exercise_id = x.id /\ l.category_id = y.id

\* C17: whenever a sync_user_data call returns without having caught an
\* error, skipped by the flag or not, the catalog of its user holds every
\* entry of the base catalog as it is at the return.
C17_FlagIsNoGuarantee ==
  [][\A s \in Sessions :
       (sync[s].pc # sync'[s].pc \/ sync[s].result # sync'[s].result)
         /\ sync'[s].pc = "idle" /\ sync'[s].result \in {"committed", "skipped"}
         => CatalogComplete(session_state[s].user)']_vars

(***************************************************************************)
(* Claims about the readers (checked under LifecycleSpec).                 *)
(***************************************************************************)
\* What _fetch_macro_cycles hands to its caller now, the store answering:
\* the cached value when there is one.
ReadMacroCycles ==
  IF deployment = "logic" /\ macro_cycles_cache.filled
    THEN macro_cycles_cache.data
    ELSE macrocycles

\* C20: a read that fails hands an empty list (or none) to its caller, and
\* the read that follows any read, failed or not, while the store answers
\* hands over the rows that are persisted.
C20_ReadsRecover ==
  [][/\ (~macro_cycles_cache.filled /\ macro_cycles_cache'.filled)
          => ReadMacroCycles' = macrocycles'
     /\ \A id \in PlanIds :
          (~details_cache[id].filled /\ details_cache'[id].filled)
            => ReadDetails(id)' = Detail(id)']_vars
(***************************************************************************)
(* Claims about the order of the Plan Reader.                              *)
(***************************************************************************)
\* The table rows the reader draws for the workout with this id.
TableOf(pes, workout_id) == SortById({p \in pes : p.workout_id = workout_id})

\* C18 (checked under Spec): every insert of a PlannedExercise puts its row
\* at the end of the table the reader draws for its workout, at the position
\* its exercise template has in the day, whatever the exercise names are.
C18_ExercisesInAuthoredOrder ==
  [][(gen.pc = "exercise" /\ plannedexercises' # plannedexercises)
       => LET et == WithLibraryId(workout_templates[gen.day].exercises[gen.ex])
              old == TableOf(plannedexercises, gen.workout_id)
              new == TableOf(plannedexercises', gen.workout_id)
          IN  /\ Len(new) = gen.ex
              /\ SubSeq(new, 1, gen.ex - 1) = old
              /\ new[gen.ex].exercise_library_id = et.library_id
              /\ new[gen.ex].sets = et.sets
              /\ new[gen.ex].target_rir_json = et.rirs]_vars

\* Squat (library id 2) was authored before Curl (library id 1) and is drawn
\* before it.
C18_Witness ==
  \E w \in workouts :
    /\ Len(TableOf(plannedexercises, w.id)) = 2
    /\ TableOf(plannedexercises, w.id)[1].exercise_library_id = 2
    /\ TableOf(plannedexercises, w.id)[2].exercise_library_id = 1

\* C19 (checked under DisplaySpec): the week tabs are drawn in ascending
\* lexicographic order of their names and the workouts of a tab in ascending
\* order of name; from 10 weeks on "Week 10" is drawn before "Week 2", so the
\* tabs are not in the order in which the weeks were created.
C19_WeeksInNameOrder ==
  LET tabs == shown.tabs
  IN  /\ \A i, j \in DOMAIN tabs :
           i < j => StrLess(CodePoints(tabs[i].name), CodePoints(tabs[j].name))
      /\ \A t \in DOMAIN tabs : \A i, j \in DOMAIN tabs[t].workouts :
           i < j => ~StrLess(CodePoints(tabs[t].workouts[j].name),
                             CodePoints(tabs[t].workouts[i].name))
      /\ Len(tabs) >= 10 =>
           /\ \E i, j \in DOMAIN tabs :
                i < j /\ tabs[i].name = "Week 10" /\ tabs[j].name = "Week 2"
           /\ \E i, j \in DOMAIN tabs : i < j /\ tabs[i].id > tabs[j].id

\* An 11 week plan on the screen: Week 1, Week 10, Week 11, Week 2, ...
C19_Witness ==
  /\ Len(shown.tabs) = 11
  /\ shown.tabs[2].name = "Week 10"
  /\ shown.tabs[3].name = "Week 11"
  /\ shown.tabs[4].name = "Week 2"
  /\ Len(shown.tabs[4].workouts) = 2

\* C21 (checked under ConcurrentSyncSpec): no step of a sync_user_data call
\* changes a row of the three base tables, the committed catalog rows of a
\* user change only in the commit of a call made for that user, and every
\* row a call holds uncommitted is owned by the user of the call; this holds
\* while the calls of two sessions, of one or of two users, interleave.
OwnedBy(rows, u) == \A r \in rows : r.user_id = u

C21_SyncTouchesOnlyOwnRows ==
  [][ /\ UNCHANGED baseTables
      /\ \A u \in Users :
           CommittedCatalog(u)' # CommittedCatalog(u) =>
             \E s \in Sessions : /\ sync[s].user = u
                                 /\ sync[s].pc = "commit"
                                 /\ sync'[s].result = "committed"
      /\ \A s \in Sessions :
           /\ OwnedBy(pending'[s].categories, sync'[s].user)
           /\ OwnedBy(pending'[s].exerciselibrary, sync'[s].user)
           /\ OwnedBy(pending'[s].exercisecategories, sync'[s].user) ]_vars

\* The calls of two different users have both inserted rows and neither has
\* committed yet, while the other user's committed rows are in the tables.
C21_Witness ==
  /\ sync["s1"].user = "u1" /\ sync["s2"].user = "u2"
  /\ sync["s1"].pc = "link" /\ sync["s2"].pc = "link"
  /\ pending["s1"].exerciselibrary # {} /\ pending["s1"].exercisecategories # {}
  /\ pending["s2"].categories # {} /\ pending["s2"].exercisecategories # {}

\* The workouts of one week in creation order, each with its name and the
\* content of its PlannedExercises in creation order.
WeekContent(mini_id) ==
  LET ws == SortById({w \in workouts : w.mini_id = mini_id})
  IN  [i \in DOMAIN ws |->
         LET pes == TableOf(plannedexercises, ws[i].id)
         IN  [name |-> ws[i].name,
              exercises |-> [k \in DOMAIN pes |->
                               [exercise_library_id |-> pes[k].exercise_library_id,
                                sets |-> pes[k].sets,
                                target_rir_json |-> pes[k].target_rir_json,
                                notes |-> pes[k].notes]]]]

\* C22 (checked under Spec): after a generate call that ran through every
\* insert, every week of its macrocycle holds, in creation order, one Workout
\* per workout template with the names in the authored order, and any two
\* weeks hold the same sequence of PlannedExercises per Workout (exercise id,
\* sets, RIR sequence and notes).
C22_WeeksAreAlike ==
  (Hosted /\ AllInsertsSucceeded) =>
     \A a \in CallMinis :
       /\ Len(WeekContent(a.id)) = Len(gen.templates)
       /\ \A d \in DOMAIN gen.templates : WeekContent(a.id)[d].name = gen.templates[d].name
       /\ \A b \in CallMinis : WeekContent(a.id) = WeekContent(b.id)

\* A saved plan of two weeks with two days, one of them with an exercise.
C22_Witness ==
  /\ AllInsertsSucceeded
  /\ Cardinality(CallMinis) = 2
  /\ Len(gen.templates) = 2
  /\ gen.templates[1].name # gen.templates[2].name
  /\ \E a \in CallMinis : \E d \in DOMAIN WeekContent(a.id) :
       Len(WeekContent(a.id)[d].exercises) >= 1

\* The exercise template the insert loop of the generate call is at.
TemplateAtHand == workout_templates[gen.day].exercises[gen.ex]

\* C23 (checked under Spec): the step of the insert loop for an exercise
\* template whose name is empty writes no PlannedExercise row and does not
\* end the generate call in "Failed to save plan".
C23_EmptyNamedSkipped ==
  [][(Hosted /\ InsertPlannedExercise /\ TemplateAtHand.name = "")
       => /\ plannedexercises' = plannedexercises
          /\ outcome'.status # "failed"]_vars

\* C24 (checked under Spec): every PlannedExercise row the insert loop of a
\* generate call writes references a catalog exercise whose name is the name
\* the exercise template has during that call.
C24_WritesTheNamedExercise ==
  [][(Hosted /\ InsertPlannedExercise)
       => \A r \in plannedexercises' \ plannedexercises :
            \E x \in exerciselibrary :
              x.id = r.exercise_library_id /\ x.name = TemplateAtHand.name]_vars

\* C25 (checked under Spec): Add Day puts exactly one template with an empty
\* exercise list behind the existing templates and leaves those as they are;
\* Remove Day at position d drops exactly the template at d: the templates
\* before d stay, the templates behind d move up by one, each with its name
\* and its exercises (name, sets, RIR list, notes).
C25_DaysAddedAndRemovedInPlace ==
  [][ /\ AddDay =>
           /\ Len(workout_templates') = Len(workout_templates) + 1
           /\ workout_templates'[Len(workout_templates')].exercises = <<>>
           /\ \A k \in DOMAIN workout_templates :
                workout_templates'[k] = workout_templates[k]
      /\ \A d \in DOMAIN workout_templates :
           RemoveDay(d) =>
             /\ Len(workout_templates') = Len(workout_templates) - 1
             /\ \A k \in DOMAIN workout_templates' :
                  workout_templates'[k] =
                    IF k < d THEN workout_templates[k] ELSE workout_templates[k + 1] ]_vars

\* "Day 2" of three days was removed; "Day 1" keeps its exercise and "Day 3"
\* has moved to position 2.
C25_Witness ==
  /\ Len(workout_templates) = 2
  /\ workout_templates[1].name = "Day 1"
  /\ Len(workout_templates[1].exercises) = 1
  /\ workout_templates[2].name = "Day 3"

\* C26 (checked under ConcurrentSyncSpec): while and after the
\* sync_user_data calls of two sessions interleave, no user has two
\* categories or two exercises of one name or two links of one (exercise,
\* category), and once a call for a user has committed, that user's catalog
\* holds every base category, base exercise and base link, as after a single
\* call.
C26_ConcurrentSyncsAsOne ==
  \A u \in Users :
    /\ NoDuplicateRows(u)
    /\ (\E s \in Sessions : sync[s].user = u /\ sync[s].result = "committed")
         => CatalogComplete(u)

\* Two calls for one user overlapped and both committed: the second started
\* while the catalog was incomplete, waited for the rows of the first and
\* inserted nothing itself.
C26_Witness ==
  /\ sync["s1"].user = "u1" /\ sync["s2"].user = "u1"
  /\ sync["s1"].result = "committed" /\ sync["s2"].result = "committed"
  /\ sync["s1"].before = sync["s2"].before
  /\ sync["s1"].before # CommittedCatalog("u1")
  /\ sync["s1"].inserted + sync["s2"].inserted >= 3
  /\ CommittedCatalog("u1").exercisecategories # {}

\* C27 (checked under ScopeSpec): the exercise library handed to the page of
\* a signed-in user holds only rows of that user, and every exercise id the
\* generate calls of that user have stored in PlannedExercises is the id of
\* a row of that user's catalog, whatever another user did in another
\* session.
C27_ReadsAreScoped ==
  LET U == session_state[EditorSession].user
      Own(id) == \E x \in exerciselibrary : x.id = id /\ x.user_id = U
  IN  /\ \A r \in exercise_library_data : Own(r.id)
      /\ \A p \in plannedexercises : Own(p.exercise_library_id)

\* C28 (checked under SelectorSpec): the plan selector offers one display
\* name per stored macrocycle, all different, the display names map onto
\* the ids of all stored macrocycles, and the picked display name resolves
\* to the id of the macrocycle at its position in the list.
C28_EveryPlanSelectable ==
  selection.options # <<>> =>
    LET macro_cycles == SortById(macrocycles)
    IN  /\ Len(selection.options) = Len(macro_cycles)
        /\ \A i, j \in DOMAIN selection.options :
             i # j => selection.options[i] # selection.options[j]
        /\ selection.to_id = {m.id : m \in macrocycles}
        /\ selection.macro_id = macro_cycles[selection.chosen].id

\* The unlogged workouts no other unlogged workout precedes in the order of
\* (macrocycle id, minicycle id, workout id).
FirstOpen ==
  {w \in Unlogged : ~\E o \in Unlogged :
     \E kw \in JoinedKeys(w), ko \in JoinedKeys(o) : KeyBefore(ko, kw)}

LogsOf(w) == {wl \in workoutlogs : wl.workout_id = w.id}

\* The session drawn on the page is the first unlogged workout, no workout
\* has two logs, the logs were written in the order of the plan, and the
\* page reports completion only when every workout has its log.
LoggedInOrder ==
  /\ active_session.page = "active" => \E w \in FirstOpen : w.id = active_session.w_id
  /\ \A w \in workouts : Cardinality(LogsOf(w)) <= 1
  /\ \A a, b \in workoutlogs :
       a.id < b.id =>
         \E wa, wb \in workouts :
           /\ wa.id = a.workout_id /\ wb.id = b.workout_id
           /\ \E ka \in JoinedKeys(wa), kb \in JoinedKeys(wb) : KeyBefore(ka, kb)
  /\ active_session.page = "completed" => \A w \in workouts : Cardinality(LogsOf(w)) = 1

\* A run that writes a row writes one WorkoutLogs row, for the first
\* unlogged workout, and per exercise of the session buffer one SetLogs row
\* per set, numbered 1..n; a run that finds every workout logged reports
\* completion.
FinishLogsTheSession ==
  /\ (workoutlogs' # workoutlogs \/ setlogs' # setlogs) =>
       \E w \in FirstOpen : \E wl \in workoutlogs' \ workoutlogs :
         LET buffer == ActiveSession(w.id)
             written == setlogs' \ setlogs
         IN  /\ workoutlogs' = workoutlogs \cup {wl}
             /\ wl.workout_id = w.id
             /\ setlogs \subseteq setlogs'
             /\ \A r \in written : r.workout_log_id = wl.id /\ r.exercise \in DOMAIN buffer
             /\ \A e \in DOMAIN buffer :
                  LET rows == {r \in written : r.exercise = e}
                  IN  /\ Cardinality(rows) = Len(buffer[e].actual_sets)
                      /\ {r.set_number : r \in rows} = 1..Len(buffer[e].actual_sets)
  /\ (Unlogged = {} /\ active_session' # active_session) =>
       active_session'.page = "completed"

\* C29 (checked under LoggerSpec): session logging goes through the plan in
\* order and logs each workout at most once: the active session is the
\* unlogged workout with the smallest (macrocycle id, minicycle id, workout
\* id); Finish Workout inserts exactly one WorkoutLogs row for it and one
\* SetLogs row per remaining actual set, numbered 1..n per exercise; once
\* every workout is logged the page reports that all workouts are completed.
C29_LoggedOnceInOrder == [](LoggedInOrder) /\ [][FinishLogsTheSession]_vars

\* All four workouts of a two-week plan are logged, the page reports
\* completion, and one session was logged after a set had been added.
C29_Witness ==
  /\ active_session.page = "completed"
  /\ Cardinality(workouts) = 4
  /\ Cardinality(workoutlogs) = 4
  /\ \E r \in setlogs : r.set_number = 3

\* C30 (checked under CatalogSpec): every Exercise-Category link row an
\* insert_exercise_to_library call writes references the id of the
\* ExerciseLibrary row whose name is the exercise name given to the call,
\* also when that row existed before the call.
C30_LinksReferenceTheNamedExercise ==
  [][\A n \in ExerciseNames, cs \in CategoryLists, enforced \in BOOLEAN :
       EmbeddedCreate(n, "", cs, enforced)
         => \A l \in exercisecategories' \ exercisecategories :
              \E x \in exerciselibrary' : x.id = l.exercise_id /\ x.name = n]_vars

====
